---- MODULE Spec2Model ----
(***************************************************************************)
(* Portfolio simulators and selection rules of StocksRecommender.          *)
(*                                                                         *)
(* Modelled programs (variable sim):                                       *)
(*   "enhanced"   optimize_strategy.run_backtest_enhanced                  *)
(*   "advanced"   advanced_quantitative.run_advanced_backtest              *)
(*   "comparison" backtest_comparison.run_backtest_comparison (one of its  *)
(*                two identical tracks)                                    *)
(*   "strategy"   strategy_backtest.run_backtest (selection step)          *)
(*   "momentum_screen", "evaluate_action"   the functions of portfolio_tool*)
(*                                                                         *)
(* Arithmetic is exact: prices, cash and share counts are integers, and    *)
(* int(x / y) of the code is integer division truncated toward zero.       *)
(* Percentages are compared after cross-multiplying by the (positive)      *)
(* entry price, which is the same comparison the code makes on floats.     *)
(***************************************************************************)
EXTENDS Integers, Sequences, FiniteSets, TLC

(***************************************************************************)
(* Bounds of the exploration.                                              *)
(***************************************************************************)
\* number of rebalance dates of a run
MaxDates == 2
\* tickers of the universe that always have a price and never qualify
NBackground == 9

\* The tickers whose prices and features vary, in column order.
TickerOrder == <<"A", "B">>
Tickers == {TickerOrder[i] : i \in 1..Len(TickerOrder)}

\* NaN in the prices frame
NoPrice == 0
PriceLevels == {23, 25}
\* number of rows of a date's 6-month window: one short of the minimum of 126,
\* and one that passes it and is long enough for every return to be defined
\* (pct_change(126) needs 127 rows, see compute_scores below)
WindowLens == {125, 127}

(***************************************************************************)
(* Program constants.                                                      *)
(***************************************************************************)
INITIAL_CASH == 100000
MIN_VALID_PRICES == 10
MIN_WINDOW == 126
\* configuration of run_backtest_enhanced ('Tighter_SL_8' row of the grid)
stop_loss == -8
vol_cap == 40
TopNChoices == {1, 2}
\* literals of run_advanced_backtest / run_backtest_comparison
ADV_STOP_LOSS == -8
ADV_TOP == 6
ADV_VOL_CAP == 60
ADV_MIN_MOMENTUM == 20
ADV_DRIFT_PCT == 10

VARIABLES
    sim,            \* which program runs
    dynamic_sizing, \* run_backtest_enhanced parameter
    top_n,          \* run_backtest_enhanced parameter
    date,           \* number of rebalance dates consumed so far
    portfolio,      \* dict ticker -> {shares, entry_price}, in insertion order
    cash,
    equity_curve,   \* list of {date, value}
    valid_prices,   \* prices of the last consumed date (NoPrice = NaN)
    last_known,     \* last non-NaN price seen for each ticker
    picks,          \* rows selected on the last consumed date
    trades,         \* trades of the last consumed date, in order (a refused buy
                    \* is logged as "declined")
    outcome,        \* branch taken by the last loop iteration
    action,         \* last evaluate_action call: arguments and result
    universe,       \* MOMENTUM_UNIVERSE: the order momentum_screen visits tickers
    run,            \* 1 = first run of the simulator, 2 = the rerun
    first_run,      \* per date of the first run: its inputs and what it did
    metrics,        \* result of the performance computation on equity_curve
    normalized,     \* last min-max normalisation: the signal and its result
    scores,         \* last compute_scores call: the window and the rows returned
    frames,         \* fetch_history: the frames collected from the batches
    batch,          \* fetch_history: number of batches downloaded so far
    target_weights, \* run_backtest_enhanced: the target weights of the last picks
    composite_scores,\* calculate_composite_score: the inputs and the score of each ticker
    plan,           \* portfolio_tool: the positions built and the rebalance plan
    prices,         \* the frame of daily closes handed to run_backtest
    equity,         \* run_backtest: the running equity, a fraction
    daily_returns,  \* run_backtest: the list of applied daily returns
    fundamental     \* compute_score: the last StockFundamentals scored and its score

vars == <<sim, dynamic_sizing, top_n, date, portfolio, cash, equity_curve,
          valid_prices, last_known, picks, trades, outcome, action,
          universe, run, first_run, metrics, normalized, scores, frames, batch,
          target_weights, composite_scores, plan, prices, equity, daily_returns, fundamental>>

(***************************************************************************)
(* Helpers on sequences.                                                   *)
(***************************************************************************)
Range(s) == {s[i] : i \in 1..Len(s)}

RECURSIVE SumSeq(_)
SumSeq(s) == IF s = <<>> THEN 0 ELSE Head(s) + SumSeq(Tail(s))

\* int(a / b) for b > 0: truncation toward zero
TruncDiv(a, b) == IF a >= 0 THEN a \div b ELSE -((-a) \div b)

\* an entry of the trade log; entry_price is the position's entry price
Trade(kind, t, shares, price, entry) ==
    [kind |-> kind, ticker |-> t, shares |-> shares, price |-> price,
     entry_price |-> entry]

Held(pf) == {pf[i].ticker : i \in 1..Len(pf)}

PosOf(pf, t) == LET i == CHOOSE j \in 1..Len(pf) : pf[j].ticker = t IN pf[i]

RemoveTickers(pf, S) == SelectSeq(pf, LAMBDA p : p.ticker \notin S)

\* sum of shares * price over the held positions that have a price
RECURSIVE PricedValue(_, _)
PricedValue(pf, px) ==
    IF pf = <<>> THEN 0
    ELSE (IF px[Head(pf).ticker] # NoPrice
          THEN Head(pf).shares * px[Head(pf).ticker] ELSE 0)
         + PricedValue(Tail(pf), px)

\* the comparison made exclusive
PnlAtOrBelow_Strict(current, entry, threshold) ==
    (current - entry) * 100 < threshold * entry

\* ((current - entry) / entry) * 100 <= threshold, entry > 0
PnlAtOrBelow(current, entry, threshold) ==
    (current - entry) * 100 <= threshold * entry

(***************************************************************************)
(* Feature rows and selection.                                             *)
(***************************************************************************)
\* rows of compute_scores: score, ret3m, ret6m, vol; nan = dropped by dropna
FeatureRows ==
    { [score |-> 2, ret3m |-> 1, ret6m |-> 1, vol |-> 39, nan |-> FALSE],
      [score |-> 1, ret3m |-> 1, ret6m |-> 1, vol |-> 39, nan |-> FALSE],
      [score |-> 2, ret3m |-> 0, ret6m |-> 1, vol |-> 39, nan |-> FALSE],
      [score |-> 2, ret3m |-> 1, ret6m |-> 0, vol |-> 39, nan |-> FALSE],
      [score |-> 2, ret3m |-> 1, ret6m |-> 1, vol |-> 40, nan |-> FALSE],
      [score |-> 0, ret3m |-> 0, ret6m |-> 0, vol |-> 0, nan |-> TRUE] }

\* the frame as a list of rows in column order, restricted to the tickers in S
RECURSIVE FrameRows(_, _, _)
FrameRows(i, rows, S) ==
    IF i > Len(TickerOrder) THEN <<>>
    ELSE LET t == TickerOrder[i] IN
         (IF t \in S
          THEN <<[ticker |-> t, score |-> rows[t].score, ret3m |-> rows[t].ret3m,
                  ret6m |-> rows[t].ret6m, vol |-> rows[t].vol]>>
          ELSE <<>>) \o FrameRows(i + 1, rows, S)

\* sort_values(column, ascending=False) / sorted(..., reverse=True): rows with
\* equal keys keep their frame order.  keys[i] is the sort key of row i.
RECURSIVE InsertDesc(_, _, _)
InsertDesc(j, idx, keys) ==
    IF idx = <<>> THEN <<j>>
    ELSE IF keys[Head(idx)] >= keys[j]
         THEN <<Head(idx)>> \o InsertDesc(j, Tail(idx), keys)
         ELSE <<j>> \o idx

RECURSIVE OrderDesc(_, _)
OrderDesc(n, keys) ==
    IF n = 0 THEN <<>> ELSE InsertDesc(n, OrderDesc(n - 1, keys), keys)

SortDesc(s, keys) ==
    LET order == OrderDesc(Len(s), keys) IN [i \in 1..Len(s) |-> s[order[i]]]

HeadN(s, n) == SubSeq(s, 1, IF Len(s) < n THEN Len(s) ELSE n)

\* the comparisons made inclusive
MomentumMask_NonStrict(r, cap) == r.vol <= cap /\ r.ret3m >= 0 /\ r.ret6m >= 0

\* mask of run_backtest_enhanced and run_backtest
MomentumMask(r, cap) == r.vol < cap /\ r.ret3m > 0 /\ r.ret6m > 0

\* compute_scores(...).dropna() on the columns with a price, mask, sort, head
EnhancedPicks(rows, px) ==
    LET scored == {t \in Tickers : px[t] # NoPrice /\ ~rows[t].nan}
        frame == FrameRows(1, rows, scored)
        masked == SelectSeq(frame, LAMBDA r : MomentumMask(r, vol_cap))
        filtered == SortDesc(masked, [i \in 1..Len(masked) |-> masked[i].score])
    IN HeadN(filtered, top_n)

PickTickers(pks) == {pks[i].ticker : i \in 1..Len(pks)}

(***************************************************************************)
(* run_backtest_enhanced: one iteration of the loop over rebalance dates.  *)
(***************************************************************************)
\* the stop-loss / exit scan: the tickers appended to to_sell, with the reason
RECURSIVE EnhancedToSell(_, _, _)
EnhancedToSell(pf, px, pks) ==
    IF pf = <<>> THEN <<>>
    ELSE LET p == Head(pf)
             rest == EnhancedToSell(Tail(pf), px, pks)
         IN IF px[p.ticker] = NoPrice THEN rest
            ELSE IF PnlAtOrBelow(px[p.ticker], p.entry_price, stop_loss)
                 THEN <<Trade("stop", p.ticker, p.shares, px[p.ticker],
                              p.entry_price)>> \o rest
            ELSE IF p.ticker \notin PickTickers(pks)
                 THEN <<Trade("exit", p.ticker, p.shares, px[p.ticker],
                              p.entry_price)>> \o rest
            ELSE rest

RECURSIVE Proceeds(_)
Proceeds(ts) ==
    IF ts = <<>> THEN 0 ELSE Head(ts).shares * Head(ts).price + Proceeds(Tail(ts))

\* the proceeds not credited
CreditSales_Dropped(available, sells) == available

\* "cash += shares * sell_price" for every sale of a list
CreditSales(available, sells) == available + Proceeds(sells)

\* the guard left out
Affordable_Always(cost, available) == TRUE

\* the buy guard of the simulators: cost <= cash
Affordable(cost, available) == cost <= available

\* the buy loop over picks.index; st = [portfolio, cash, trades]
\* a target weight is the fraction wnum[i] / wden
RECURSIVE EnhancedBuy(_, _, _, _, _, _, _)
EnhancedBuy(i, pks, px, pv, wnum, wden, st) ==
    IF i > Len(pks) THEN st
    ELSE LET t == pks[i].ticker
             price == px[t]
             shares_to_buy == TruncDiv(pv * wnum[i], wden * price)
             cost == shares_to_buy * price
             next ==
                IF t \in Held(st.portfolio) THEN st
                ELSE IF shares_to_buy > 0
                     THEN IF Affordable(cost, st.cash)
                          THEN [st EXCEPT
                                 !.portfolio = Append(@, [ticker |-> t,
                                                          shares |-> shares_to_buy,
                                                          entry_price |-> price]),
                                 !.cash = @ - cost,
                                 !.trades = Append(@,
                                     Trade("buy", t, shares_to_buy, price, price))]
                          ELSE [st EXCEPT !.trades = Append(@,
                                    Trade("declined", t, shares_to_buy, price, price))]
                     ELSE st
         IN EnhancedBuy(i + 1, pks, px, pv, wnum, wden, next)

UpdateKnown(known, px) ==
    [t \in Tickers |-> IF px[t] # NoPrice THEN px[t] ELSE known[t]]

NumValid(px) == Cardinality({t \in Tickers : px[t] # NoPrice}) + NBackground

\* a `continue` of the enhanced loop: nothing but the loop position changes
EnhancedSkip(px, why) ==
    /\ date' = date + 1
    /\ valid_prices' = px
    /\ last_known' = UpdateKnown(last_known, px)
    /\ picks' = <<>>
    /\ trades' = <<>>
    /\ outcome' = why
    /\ UNCHANGED <<sim, dynamic_sizing, top_n, portfolio, cash, equity_curve, action>>

EnhancedTrade(px, pks) ==
    LET sells == EnhancedToSell(portfolio, px, pks)
        sold == {sells[i].ticker : i \in 1..Len(sells)}
        pf1 == RemoveTickers(portfolio, sold)
        cash1 == CreditSales(cash, sells)
        portfolio_value == cash1 + PricedValue(pf1, px)
        total_score == SumSeq([i \in 1..Len(pks) |-> pks[i].score])
        wnum == [i \in 1..Len(pks) |-> IF dynamic_sizing THEN pks[i].score ELSE 1]
        wden == IF dynamic_sizing THEN total_score ELSE Len(pks)
        st == EnhancedBuy(1, pks, px, portfolio_value, wnum, wden,
                          [portfolio |-> pf1, cash |-> cash1,
                           trades |-> sells])
        total_value == st.cash + PricedValue(st.portfolio, px)
    IN /\ date' = date + 1
       /\ valid_prices' = px
       /\ last_known' = UpdateKnown(last_known, px)
       /\ picks' = pks
       /\ portfolio' = st.portfolio
       /\ cash' = st.cash
       /\ trades' = st.trades
       /\ equity_curve' = Append(equity_curve, [date |-> date + 1, value |-> total_value])
       /\ outcome' = "traded"
       /\ UNCHANGED <<sim, dynamic_sizing, top_n, action>>

\* the body of the loop for one date
EnhancedStep(px, wlen, rows) ==
    IF NumValid(px) < MIN_VALID_PRICES THEN EnhancedSkip(px, "few_prices")
    ELSE IF wlen < MIN_WINDOW THEN EnhancedSkip(px, "short_window")
    ELSE LET pks == EnhancedPicks(rows, px) IN
         IF Len(pks) = 0 THEN EnhancedSkip(px, "no_candidates")
         ELSE EnhancedTrade(px, pks)

RebalanceEnhanced ==
    /\ sim = "enhanced"
    /\ date < MaxDates
    /\ \E px \in [Tickers -> PriceLevels \cup {NoPrice}],
          wlen \in WindowLens,
          rows \in [Tickers -> FeatureRows] :
          EnhancedStep(px, wlen, rows)
    /\ UNCHANGED <<universe, run, first_run, metrics, normalized, scores, frames, batch,
                   target_weights, composite_scores, plan, prices,
                   equity, daily_returns, fundamental>>

(***************************************************************************)
(* run_advanced_backtest: one iteration of the loop over trading dates.    *)
(***************************************************************************)
\* rows of calculate_composite_score: composite, normalised momentum and
\* original_volatility
AdvancedRows ==
    { [composite |-> 2, momentum |-> 50, original_volatility |-> 59],
      [composite |-> 1, momentum |-> 50, original_volatility |-> 59],
      [composite |-> 0, momentum |-> 50, original_volatility |-> 59],
      [composite |-> 2, momentum |-> 20, original_volatility |-> 59],
      [composite |-> 2, momentum |-> 50, original_volatility |-> 60] }

AdvancedMask(r) ==
    /\ r.original_volatility < ADV_VOL_CAP
    /\ r.composite > 0
    /\ r.momentum > ADV_MIN_MOMENTUM

\* scores_df has a row for every column of the frame, priced today or not
RECURSIVE AdvancedFrame(_, _)
AdvancedFrame(i, rows) ==
    IF i > Len(TickerOrder) THEN <<>>
    ELSE LET t == TickerOrder[i] IN
         <<[ticker |-> t, composite |-> rows[t].composite,
            momentum |-> rows[t].momentum,
            original_volatility |-> rows[t].original_volatility]>>
         \o AdvancedFrame(i + 1, rows)

AdvancedFiltered(rows) ==
    LET masked == SelectSeq(AdvancedFrame(1, rows), LAMBDA r : AdvancedMask(r))
    IN SortDesc(masked, [i \in 1..Len(masked) |-> masked[i].composite])

\* "Check and apply stop-losses": sells while scanning the portfolio
RECURSIVE AdvancedStops(_, _)
AdvancedStops(pf, px) ==
    IF pf = <<>> THEN <<>>
    ELSE LET p == Head(pf)
             rest == AdvancedStops(Tail(pf), px)
         IN IF px[p.ticker] # NoPrice
               /\ PnlAtOrBelow(px[p.ticker], p.entry_price, ADV_STOP_LOSS)
            THEN <<Trade("stop", p.ticker, p.shares, px[p.ticker],
                         p.entry_price)>> \o rest
            ELSE rest

\* "Sell positions not in top picks"
RECURSIVE AdvancedExits(_, _, _)
AdvancedExits(pf, px, pks) ==
    IF pf = <<>> THEN <<>>
    ELSE LET p == Head(pf)
             rest == AdvancedExits(Tail(pf), px, pks)
         IN IF p.ticker \notin PickTickers(pks) /\ px[p.ticker] # NoPrice
            THEN <<Trade("exit", p.ticker, p.shares, px[p.ticker],
                         p.entry_price)>> \o rest
            ELSE rest

Abs(x) == IF x < 0 THEN -x ELSE x

\* abs(current_value - target) > target * 0.1 with target = pv / 6
Drifted(current_value, pv) ==
    Abs(ADV_TOP * current_value - pv) * 100 > pv * ADV_DRIFT_PCT

SetPos(pf, t, shares, entry) ==
    [i \in 1..Len(pf) |->
        IF pf[i].ticker = t
        THEN [ticker |-> t, shares |-> shares, entry_price |-> entry]
        ELSE pf[i]]

\* the rebalance loop over picks.index[:6]; st = [portfolio, cash, trades]
RECURSIVE AdvancedRebalance(_, _, _, _, _)
AdvancedRebalance(i, pks, px, pv, st) ==
    IF i > Len(pks) THEN st
    ELSE LET t == pks[i].ticker
             price == px[t]
             next ==
                IF price = NoPrice THEN st
                ELSE IF t \in Held(st.portfolio)
                THEN LET shares == PosOf(st.portfolio, t).shares
                         current_value == shares * price
                         credited == st.cash + current_value
                         new_shares == TruncDiv(pv, ADV_TOP * price)
                     IN IF Drifted(current_value, pv)
                        THEN IF new_shares > 0 /\ Affordable(new_shares * price, credited)
                             THEN [st EXCEPT
                                    !.portfolio = SetPos(@, t, new_shares, price),
                                    !.cash = credited - new_shares * price,
                                    !.trades = @ \o
                                       <<Trade("resize_sell", t, shares, price, price),
                                         Trade("resize_buy", t, new_shares, price, price)>>]
                             ELSE [st EXCEPT
                                    !.cash = credited,
                                    !.trades = Append(@,
                                        Trade("resize_credit", t, shares, price, price))]
                        ELSE st
                ELSE LET shares_to_buy == TruncDiv(pv, ADV_TOP * price)
                         cost == shares_to_buy * price
                     IN IF shares_to_buy > 0
                        THEN IF Affordable(cost, st.cash)
                             THEN [st EXCEPT
                                    !.portfolio = Append(@, [ticker |-> t,
                                                             shares |-> shares_to_buy,
                                                             entry_price |-> price]),
                                    !.cash = @ - cost,
                                    !.trades = Append(@,
                                        Trade("buy", t, shares_to_buy, price, price))]
                             ELSE [st EXCEPT !.trades = Append(@,
                                       Trade("declined", t, shares_to_buy, price, price))]
                        ELSE st
         IN AdvancedRebalance(i + 1, pks, px, pv, next)

\* the early exits of the advanced loop: the point recorded is the cash
AdvancedSkip(px, why) ==
    /\ date' = date + 1
    /\ valid_prices' = px
    /\ last_known' = UpdateKnown(last_known, px)
    /\ picks' = <<>>
    /\ trades' = <<>>
    /\ equity_curve' = Append(equity_curve, [date |-> date + 1, value |-> cash])
    /\ outcome' = why
    /\ UNCHANGED <<sim, dynamic_sizing, top_n, portfolio, cash, action>>

AdvancedTrade(px, filtered) ==
    LET stops == AdvancedStops(portfolio, px)
        pf1 == RemoveTickers(portfolio, {stops[i].ticker : i \in 1..Len(stops)})
        cash1 == CreditSales(cash, stops)
        pks == HeadN(filtered, ADV_TOP)
        exits == AdvancedExits(pf1, px, pks)
        pf2 == RemoveTickers(pf1, {exits[i].ticker : i \in 1..Len(exits)})
        cash2 == CreditSales(cash1, exits)
        portfolio_value == cash2 + PricedValue(pf2, px)
        st == AdvancedRebalance(1, pks, px, portfolio_value,
                                [portfolio |-> pf2, cash |-> cash2,
                                 trades |-> stops \o exits])
    IN /\ date' = date + 1
       /\ valid_prices' = px
       /\ last_known' = UpdateKnown(last_known, px)
       /\ picks' = pks
       /\ portfolio' = st.portfolio
       /\ cash' = st.cash
       /\ trades' = st.trades
       /\ equity_curve' = Append(equity_curve,
              [date |-> date + 1, value |-> st.cash + PricedValue(st.portfolio, px)])
       /\ outcome' = "traded"
       /\ UNCHANGED <<sim, dynamic_sizing, top_n, action>>

RebalanceAdvanced ==
    /\ sim = "advanced"
    /\ date < MaxDates
    /\ \E px \in [Tickers -> PriceLevels \cup {NoPrice}],
          wlen \in WindowLens,
          rows \in [Tickers -> AdvancedRows] :
          IF NumValid(px) < MIN_VALID_PRICES THEN AdvancedSkip(px, "few_prices")
          ELSE IF wlen < MIN_WINDOW THEN AdvancedSkip(px, "short_window")
          ELSE LET filtered == AdvancedFiltered(rows) IN
               IF Len(filtered) = 0 THEN AdvancedSkip(px, "no_candidates")
               ELSE AdvancedTrade(px, filtered)
    /\ UNCHANGED <<universe, run, first_run, metrics, normalized, scores, frames, batch,
                   target_weights, composite_scores, plan, prices,
                   equity, daily_returns, fundamental>>

(***************************************************************************)
(* run_backtest_comparison: one iteration of the loop, for one of the two  *)
(* tracks (momentum and multi-factor run the same statements on their own  *)
(* scores, cash and portfolio).  The background tickers have a price but   *)
(* fewer than 126 observations, so they get no score.                      *)
(***************************************************************************)
\* a ticker's score, or history = 125 when its window is too short to score
ComparisonRows ==
    { [score |-> 2, history |-> 126],
      [score |-> 1, history |-> 126],
      [score |-> 0, history |-> 125] }

\* scores_momentum.items() in column order
RECURSIVE ComparisonScores(_, _, _)
ComparisonScores(i, rows, px) ==
    IF i > Len(TickerOrder) THEN <<>>
    ELSE LET t == TickerOrder[i] IN
         (IF px[t] # NoPrice /\ rows[t].history >= MIN_WINDOW
          THEN <<[ticker |-> t, score |-> rows[t].score]>>
          ELSE <<>>) \o ComparisonScores(i + 1, rows, px)

\* the stop-loss scan; kept positions add to portfolio_value_m, sold ones to cash
RECURSIVE ComparisonStops(_, _)
ComparisonStops(pf, px) ==
    IF pf = <<>> THEN <<>>
    ELSE LET p == Head(pf)
             rest == ComparisonStops(Tail(pf), px)
         IN IF px[p.ticker] # NoPrice
               /\ PnlAtOrBelow(px[p.ticker], p.entry_price, ADV_STOP_LOSS)
            THEN <<Trade("stop", p.ticker, p.shares, px[p.ticker],
                         p.entry_price)>> \o rest
            ELSE rest

\* the rebalance loop over top_momentum; target_per = pv / 6
RECURSIVE ComparisonRebalance(_, _, _, _, _)
ComparisonRebalance(i, top, px, pv, st) ==
    IF i > Len(top) THEN st
    ELSE LET t == top[i].ticker
             price == px[t]
             shares == TruncDiv(pv, ADV_TOP * price)
             next ==
                IF price = NoPrice THEN st
                ELSE IF t \in Held(st.portfolio)
                THEN [st EXCEPT
                       !.portfolio = SetPos(@, t, shares, PosOf(@, t).entry_price),
                       !.trades = Append(@, Trade("resize", t, shares, price, price))]
                ELSE IF shares > 0 /\ Affordable(shares * price, st.cash)
                THEN [st EXCEPT
                       !.portfolio = Append(@, [ticker |-> t, shares |-> shares,
                                                entry_price |-> price]),
                       !.cash = @ - shares * price,
                       !.trades = Append(@, Trade("buy", t, shares, price, price))]
                ELSE IF shares > 0
                THEN [st EXCEPT !.trades = Append(@,
                                    Trade("declined", t, shares, price, price))]
                ELSE st
         IN ComparisonRebalance(i + 1, top, px, pv, next)

\* a `continue` of the comparison loop
ComparisonSkip(px, why) ==
    /\ date' = date + 1
    /\ valid_prices' = px
    /\ last_known' = UpdateKnown(last_known, px)
    /\ picks' = <<>>
    /\ trades' = <<>>
    /\ outcome' = why
    /\ UNCHANGED <<sim, dynamic_sizing, top_n, portfolio, cash, equity_curve, action>>

ComparisonTrade(px, scored) ==
    LET top == HeadN(SortDesc(scored, [i \in 1..Len(scored) |-> scored[i].score]),
                     ADV_TOP)
        stops == ComparisonStops(portfolio, px)
        pf1 == RemoveTickers(portfolio, {stops[i].ticker : i \in 1..Len(stops)})
        cash1 == CreditSales(cash, stops)
        \* portfolio_value_m starts from the cash before the stop-loss sales
        portfolio_value_m == cash + PricedValue(pf1, px)
        st == ComparisonRebalance(1, top, px, portfolio_value_m,
                                  [portfolio |-> pf1, cash |-> cash1,
                                   trades |-> stops])
    IN /\ date' = date + 1
       /\ valid_prices' = px
       /\ last_known' = UpdateKnown(last_known, px)
       /\ picks' = top
       /\ portfolio' = st.portfolio
       /\ cash' = st.cash
       /\ trades' = st.trades
       /\ equity_curve' = Append(equity_curve,
              [date |-> date + 1, value |-> st.cash + PricedValue(st.portfolio, px)])
       /\ outcome' = "traded"
       /\ UNCHANGED <<sim, dynamic_sizing, top_n, action>>

RebalanceComparison ==
    /\ sim = "comparison"
    /\ date < MaxDates
    /\ \E px \in [Tickers -> PriceLevels \cup {NoPrice}],
          rows \in [Tickers -> ComparisonRows] :
          IF NumValid(px) < MIN_VALID_PRICES THEN ComparisonSkip(px, "few_prices")
          ELSE LET scored == ComparisonScores(1, rows, px) IN
               IF Len(scored) = 0 THEN ComparisonSkip(px, "no_candidates")
               ELSE ComparisonTrade(px, scored)
    /\ UNCHANGED <<universe, run, first_run, metrics, normalized, scores, frames, batch,
                   target_weights, composite_scores, plan, prices,
                   equity, daily_returns, fundamental>>

(***************************************************************************)
(* strategy_backtest.run_backtest: the selection step of one iteration.    *)
(***************************************************************************)
LOOKBACK_DAYS == 200
LookbackLens == {199, 200}

\* compute_scores(window) has a row for every column of the frame
StrategyPicks(rows, n, cap) ==
    LET frame == FrameRows(1, rows, {t \in Tickers : ~rows[t].nan})
        filtered == SelectSeq(frame, LAMBDA r : MomentumMask(r, cap))
    IN HeadN(SortDesc(filtered, [i \in 1..Len(filtered) |-> filtered[i].score]), n)

StrategySelect ==
    /\ sim = "strategy"
    /\ \E wlen \in LookbackLens, rows \in [Tickers -> FeatureRows] :
          LET pks == IF wlen < LOOKBACK_DAYS THEN <<>>
                     ELSE StrategyPicks(rows, top_n, vol_cap)
          IN /\ picks' = pks
             /\ outcome' = IF wlen < LOOKBACK_DAYS THEN "short_window"
                           ELSE IF pks = <<>> THEN "no_candidates" ELSE "picked"
    /\ UNCHANGED <<sim, dynamic_sizing, top_n, date, portfolio, cash, equity_curve,
                   valid_prices, last_known, trades, action,
                   universe, run, first_run, metrics, normalized, scores, frames, batch,
                   target_weights, composite_scores, plan, prices,
                   equity, daily_returns, fundamental>>

(***************************************************************************)
(* portfolio_tool: momentum_screen and evaluate_action.                    *)
(***************************************************************************)
STOP_LOSS_PCT == -10
TAKE_PROFIT_PCT == 40
\* weights are in percent of the portfolio
MAX_WEIGHT == 20
REBALANCE_BAND == 3
MIN_HISTORY == 140
HistoryLens == {139, 140}

None == [none |-> TRUE, val |-> 0]
Some(v) == [none |-> FALSE, val |-> v]
PnlInputs == {None} \cup {Some(v) : v \in {-11, -10, -9, 39, 40}}
WeightInputs == {None} \cup {Some(v) : v \in {16, 17, 23, 24}}

\* the test that appends a row in momentum_screen; a NaN compares False
ScreenMask(r, cap) == ~r.nan /\ r.vol < cap /\ r.ret3m > 0 /\ r.ret6m > 0

\* the orders in which the universe list can name the tickers (the fallback
\* list of portfolio_tool is not in alphabetical order)
UniverseOrders == {<<"A", "B">>, <<"B", "A">>}

\* "for ticker in MOMENTUM_UNIVERSE": rows are appended in the order of the list
RECURSIVE ScreenRows(_, _, _, _, _)
ScreenRows(i, order, rows, hist, cap) ==
    IF i > Len(order) THEN <<>>
    ELSE LET t == order[i] IN
         (IF hist[t] >= MIN_HISTORY /\ ScreenMask(rows[t], cap)
          THEN <<[ticker |-> t, score |-> rows[t].score, ret3m |-> rows[t].ret3m,
                  ret6m |-> rows[t].ret6m, vol |-> rows[t].vol]>>
          ELSE <<>>) \o ScreenRows(i + 1, order, rows, hist, cap)

\* rows.sort(key=score, reverse=True) is stable: rows of equal score keep the
\* order in which they were appended
momentum_screen(order, rows, hist, n, cap) ==
    LET kept == ScreenRows(1, order, rows, hist, cap)
    IN HeadN(SortDesc(kept, [i \in 1..Len(kept) |-> kept[i].score]), n)

MomentumScreen ==
    /\ sim = "momentum_screen"
    /\ \E hist \in [Tickers -> HistoryLens], rows \in [Tickers -> FeatureRows] :
          LET pks == momentum_screen(universe, rows, hist, top_n, vol_cap)
          IN /\ picks' = pks
             /\ outcome' = "screened"
    /\ UNCHANGED <<sim, dynamic_sizing, top_n, date, portfolio, cash, equity_curve,
                   valid_prices, last_known, trades, action,
                   universe, run, first_run, metrics, normalized, scores, frames, batch,
                   target_weights, composite_scores, plan, prices,
                   equity, daily_returns, fundamental>>

\* the overweight test moved before the stop-loss test
evaluate_action_TrimFirst(pnl_pct, weight) ==
    IF pnl_pct.none \/ weight.none THEN <<"Review", "Price missing">>
    ELSE IF weight.val > MAX_WEIGHT + REBALANCE_BAND
         THEN <<"Trim", "Overweight vs cap">>
    ELSE IF pnl_pct.val <= STOP_LOSS_PCT THEN <<"Sell", "Stop loss hit">>
    ELSE IF pnl_pct.val >= TAKE_PROFIT_PCT /\ weight.val >= MAX_WEIGHT - REBALANCE_BAND
         THEN <<"Trim", "Lock gains and rebalance">>
    ELSE <<"Hold", "Within bands">>

evaluate_action(pnl_pct, weight) ==
    IF pnl_pct.none \/ weight.none THEN <<"Review", "Price missing">>
    ELSE IF pnl_pct.val <= STOP_LOSS_PCT THEN <<"Sell", "Stop loss hit">>
    ELSE IF pnl_pct.val >= TAKE_PROFIT_PCT /\ weight.val >= MAX_WEIGHT - REBALANCE_BAND
         THEN <<"Trim", "Lock gains and rebalance">>
    ELSE IF weight.val > MAX_WEIGHT + REBALANCE_BAND
         THEN <<"Trim", "Overweight vs cap">>
    ELSE <<"Hold", "Within bands">>

EvaluateAction ==
    /\ sim = "evaluate_action"
    /\ \E pnl_pct \in PnlInputs, weight \in WeightInputs :
          action' = [pnl_pct |-> pnl_pct, weight |-> weight,
                     action |-> evaluate_action(pnl_pct, weight)[1],
                     note |-> evaluate_action(pnl_pct, weight)[2]]
    /\ outcome' = "evaluated"
    /\ UNCHANGED <<sim, dynamic_sizing, top_n, date, portfolio, cash, equity_curve,
                   valid_prices, last_known, picks, trades,
                   universe, run, first_run, metrics, normalized, scores, frames, batch,
                   target_weights, composite_scores, plan, prices,
                   equity, daily_returns, fundamental>>

(***************************************************************************)
(* Specification of the simulators and the functions of portfolio_tool.    *)
(***************************************************************************)
\* no target weights have been computed yet
NoWeights == <<>>
\* calculate_composite_score has not been called yet
NoComposite == <<>>
\* no performance computation has returned yet
\* build_positions has not run yet
NoPlan == [results |-> <<>>, total_market |-> 0, sell_cash |-> 0, trims |-> <<>>,
           buys |-> <<>>, total_to_spend |-> 0, returned |-> ""]
\* no frame of prices has been loaded
NoFrame == [index |-> <<>>, close |-> <<>>]
\* equity = 1.0
StartEquity == [num |-> 1, den |-> 1]
\* daily_returns = []
NoReturns == <<>>
\* compute_score has not been called yet
NoFundamental == [f |-> <<>>, score |-> 0]
NoMetrics == [kind |-> "pending"]
\* compute_scores has not been called yet
NotScored == [wlen |-> 0, gap |-> [t \in Tickers |-> 0], rows |-> <<>>]
\* no signal has been normalised yet
NotNormalized == [name |-> "", signal |-> <<>>, norm |-> <<>>]

Init ==
    /\ sim \in {"enhanced", "advanced", "comparison", "strategy",
               "momentum_screen", "evaluate_action"}
    /\ dynamic_sizing \in (IF sim = "enhanced" THEN BOOLEAN ELSE {FALSE})
    /\ top_n \in (IF sim \in {"advanced", "comparison"} THEN {ADV_TOP} ELSE TopNChoices)
    /\ date = 0
    /\ portfolio = <<>>
    /\ cash = INITIAL_CASH
    /\ equity_curve = <<>>
    /\ valid_prices = [t \in Tickers |-> NoPrice]
    /\ last_known = [t \in Tickers |-> NoPrice]
    /\ picks = <<>>
    /\ trades = <<>>
    /\ outcome = "init"
    /\ action = [pnl_pct |-> None, weight |-> None, action |-> "", note |-> ""]
    /\ universe \in (IF sim = "momentum_screen" THEN UniverseOrders ELSE {TickerOrder})
    /\ run = 1
    /\ first_run = <<>>
    /\ metrics = NoMetrics
    /\ normalized = NotNormalized
    /\ scores = NotScored
    /\ frames = <<>>
    /\ batch = 0
    /\ fundamental = NoFundamental
    /\ daily_returns = NoReturns
    /\ equity = StartEquity
    /\ prices = NoFrame
    /\ plan = NoPlan
    /\ composite_scores = NoComposite
    /\ target_weights = NoWeights

Next ==
    \/ RebalanceEnhanced
    \/ RebalanceAdvanced
    \/ RebalanceComparison
    \/ StrategySelect
    \/ MomentumScreen
    \/ EvaluateAction

Spec == Init /\ [][Next]_vars

(***************************************************************************)
(* run_backtest_enhanced called twice on the same prices with the same     *)
(* configuration (optimize_strategy calls it once per configuration of the *)
(* grid on one prices frame).  The first call consumes dates and notes, for *)
(* each, what the frame held and what the call did; the second call is fed *)
(* the same dates.                                                         *)
(***************************************************************************)
\* number of rebalance dates of the replayed frame
MaxReplayDates == 2

\* feature rows of the replayed frame: one that passes the filter, one that fails
ReplayRows == {r \in FeatureRows : r.score = 2 /\ r.ret3m = 1 /\ r.ret6m = 1}

\* the locals of a call: "portfolio = {}; cash = 100000.0; equity_curve = []"
\* with the cash carried over from the call before
ResetRun_CashKept ==
    /\ date' = 0
    /\ portfolio' = <<>>
    /\ cash' = cash
    /\ equity_curve' = <<>>
    /\ valid_prices' = [t \in Tickers |-> NoPrice]
    /\ last_known' = [t \in Tickers |-> NoPrice]
    /\ picks' = <<>>
    /\ trades' = <<>>
    /\ outcome' = "init"

\* the locals of a call: "portfolio = {}; cash = 100000.0; equity_curve = []"
ResetRun ==
    /\ date' = 0
    /\ portfolio' = <<>>
    /\ cash' = INITIAL_CASH
    /\ equity_curve' = <<>>
    /\ valid_prices' = [t \in Tickers |-> NoPrice]
    /\ last_known' = [t \in Tickers |-> NoPrice]
    /\ picks' = <<>>
    /\ trades' = <<>>
    /\ outcome' = "init"

\* one date of the first call
ReplayFirst ==
    /\ sim = "replay"
    /\ run = 1
    /\ date < MaxReplayDates
    /\ \E px \in [Tickers -> PriceLevels \cup {NoPrice}],
          rows \in [Tickers -> ReplayRows] :
          LET wlen == MIN_WINDOW + 1 IN
          /\ EnhancedStep(px, wlen, rows)
          /\ first_run' = Append(first_run,
                [px |-> px, wlen |-> wlen, rows |-> rows, outcome |-> outcome',
                 picks |-> picks', trades |-> trades', portfolio |-> portfolio',
                 cash |-> cash', equity_curve |-> equity_curve'])
    /\ UNCHANGED <<universe, run, metrics, normalized, scores, frames, batch,
                   target_weights, composite_scores, plan, prices,
                   equity, daily_returns, fundamental>>

\* the first call returns and the second call starts on the same frame
Rerun ==
    /\ sim = "replay"
    /\ run = 1
    /\ date >= 1
    /\ run' = 2
    /\ ResetRun
    /\ UNCHANGED <<sim, dynamic_sizing, top_n, action, universe, first_run, metrics,
                   normalized, scores, frames, batch,
                   target_weights, composite_scores, plan, prices,
                   equity, daily_returns, fundamental>>

\* one date of the second call
ReplaySecond ==
    /\ sim = "replay"
    /\ run = 2
    /\ date < Len(first_run)
    /\ EnhancedStep(first_run[date + 1].px, first_run[date + 1].wlen,
                    first_run[date + 1].rows)
    /\ UNCHANGED <<universe, run, first_run, metrics, normalized, scores, frames, batch,
                   target_weights, composite_scores, plan, prices,
                   equity, daily_returns, fundamental>>

InitReplay ==
    /\ sim = "replay"
    /\ dynamic_sizing \in BOOLEAN
    /\ top_n = 2
    /\ date = 0
    /\ portfolio = <<>>
    /\ cash = INITIAL_CASH
    /\ equity_curve = <<>>
    /\ valid_prices = [t \in Tickers |-> NoPrice]
    /\ last_known = [t \in Tickers |-> NoPrice]
    /\ picks = <<>>
    /\ trades = <<>>
    /\ outcome = "init"
    /\ action = [pnl_pct |-> None, weight |-> None, action |-> "", note |-> ""]
    /\ universe = TickerOrder
    /\ run = 1
    /\ first_run = <<>>
    /\ metrics = NoMetrics
    /\ normalized = NotNormalized
    /\ scores = NotScored
    /\ frames = <<>>
    /\ batch = 0
    /\ fundamental = NoFundamental
    /\ daily_returns = NoReturns
    /\ equity = StartEquity
    /\ prices = NoFrame
    /\ plan = NoPlan
    /\ composite_scores = NoComposite
    /\ target_weights = NoWeights

NextReplay ==
    \/ ReplayFirst
    \/ Rerun
    \/ ReplaySecond

SpecReplay == InitReplay /\ [][NextReplay]_vars

(***************************************************************************)
(* The performance computations: the tail of run_backtest_enhanced and of  *)
(* run_advanced_backtest, calc_metrics of backtest_comparison and          *)
(* performance_stats of strategy_backtest, applied to an equity series.    *)
(* A ratio is kept exact as a fraction num / den with den > 0; the factor  *)
(* of 100 that turns a ratio into a percentage is left out.                *)
(***************************************************************************)
\* largest number of points of an equity series
MaxPoints == 3
\* values of an equity point
EquityValues == {80, 100, 120}

MetricsPrograms ==
    {"enhanced_metrics", "advanced_metrics", "calc_metrics", "performance_stats"}

Frac(n, d) == [num |-> n, den |-> d]
FracLess(a, b) == a.num * b.den < b.num * a.den
FracEq(a, b) == a.num * b.den = b.num * a.den

RECURSIVE MinFrac(_)
MinFrac(s) ==
    IF Len(s) = 1 THEN s[1]
    ELSE LET m == MinFrac(Tail(s)) IN IF FracLess(m, s[1]) THEN m ELSE s[1]

\* expanding().max() / cummax() at position k of a series of fractions
RECURSIVE RunningMax(_, _)
RunningMax(s, k) ==
    IF k = 1 THEN s[1]
    ELSE LET m == RunningMax(s, k - 1) IN IF FracLess(m, s[k]) THEN s[k] ELSE m

\* x / peak, the 1 not subtracted
RelativeToPeak_Ratio(x, peak) == Frac(x.num * peak.den, peak.num * x.den)

\* (x - peak) / peak for fractions x and peak
RelativeToPeak(x, peak) ==
    Frac(x.num * peak.den - peak.num * x.den, peak.num * x.den)

Values(curve) == [i \in 1..Len(curve) |-> curve[i].value]

\* returns = value.pct_change().dropna(); cumulative = (1 + returns).cumprod():
\* one entry per point after the first, the product of the ratios of
\* consecutive values, which is value[k + 1] / value[1]
Cumulative(v) == [k \in 1..(Len(v) - 1) |-> Frac(v[k + 1], v[1])]

\* drawdown = (cumulative - running_max) / running_max; its minimum
DrawdownFromReturns(v) ==
    LET cumulative == Cumulative(v)
        drawdown == [k \in 1..Len(cumulative) |->
                        RelativeToPeak(cumulative[k], RunningMax(cumulative, k))]
    IN MinFrac(drawdown)

\* drawdown = equity / equity.cummax() - 1 on the curve itself; its minimum
DrawdownFromCurve(v) ==
    LET series == [k \in 1..Len(v) |-> Frac(v[k], 1)]
        drawdown == [k \in 1..Len(v) |-> RelativeToPeak(series[k], RunningMax(series, k))]
    IN MinFrac(drawdown)

\* total_return = last / first - 1
TotalReturn(v) == Frac(v[Len(v)] - v[1], v[1])

\* "return None"
NoneResult == [kind |-> "none", divided |-> FALSE]

\* a dict of metrics; divided: the computation reached its divisions.  The
\* CAGR is zero exactly when total_return is; the Sharpe ratio is not modelled.
MetricsResult(dd, tr, divided) ==
    [kind |-> "metrics", max_drawdown |-> dd, total_return |-> tr, divided |-> divided]

\* run_backtest_enhanced and run_advanced_backtest after their loops
backtest_metrics(curve) ==
    IF Len(curve) < 2 THEN NoneResult
    ELSE MetricsResult(DrawdownFromReturns(Values(curve)), TotalReturn(Values(curve)), TRUE)

\* calc_metrics: {'cagr': 0, 'sharpe': 0, 'maxdd': 0} for a short series
calc_metrics(curve) ==
    IF Len(curve) < 2 THEN MetricsResult(Frac(0, 1), Frac(0, 1), FALSE)
    ELSE MetricsResult(DrawdownFromReturns(Values(curve)), TotalReturn(Values(curve)), TRUE)

\* performance_stats: the curve starts from an equity of 1.0 before its first
\* point, so the total return is the last value itself
performance_stats(curve) ==
    MetricsResult(IF Len(curve) = 0 THEN Frac(0, 1) ELSE DrawdownFromCurve(Values(curve)),
                  Frac(curve[Len(curve)].value - 100, 100), TRUE)

MetricsUnchanged ==
    UNCHANGED <<sim, dynamic_sizing, top_n, date, portfolio, cash, equity_curve,
                valid_prices, last_known, picks, trades, action, universe, run,
                first_run, normalized, scores, frames, batch,
                   target_weights, composite_scores, plan, prices,
                   equity, daily_returns, fundamental>>

EnhancedMetrics ==
    /\ sim = "enhanced_metrics"
    /\ metrics = NoMetrics
    /\ metrics' = backtest_metrics(equity_curve)
    /\ outcome' = "returned"
    /\ MetricsUnchanged

AdvancedMetrics ==
    /\ sim = "advanced_metrics"
    /\ metrics = NoMetrics
    /\ metrics' = backtest_metrics(equity_curve)
    /\ outcome' = "returned"
    /\ MetricsUnchanged

CalcMetrics ==
    /\ sim = "calc_metrics"
    /\ metrics = NoMetrics
    /\ metrics' = calc_metrics(equity_curve)
    /\ outcome' = "returned"
    /\ MetricsUnchanged

PerformanceStats ==
    /\ sim = "performance_stats"
    /\ metrics = NoMetrics
    /\ metrics' = performance_stats(equity_curve)
    /\ outcome' = "returned"
    /\ MetricsUnchanged

\* an equity series of up to MaxPoints points; run_backtest raises when its
\* curve is empty, so performance_stats is called on at least one point
InitMetrics ==
    /\ sim \in MetricsPrograms
    /\ \E n \in 0..MaxPoints : \E f \in [1..n -> EquityValues] :
          equity_curve = [i \in 1..n |-> [date |-> i, value |-> f[i]]]
    /\ sim = "performance_stats" => Len(equity_curve) >= 1
    /\ dynamic_sizing = FALSE
    /\ top_n = 2
    /\ date = Len(equity_curve)
    /\ portfolio = <<>>
    /\ cash = INITIAL_CASH
    /\ valid_prices = [t \in Tickers |-> NoPrice]
    /\ last_known = [t \in Tickers |-> NoPrice]
    /\ picks = <<>>
    /\ trades = <<>>
    /\ outcome = "init"
    /\ action = [pnl_pct |-> None, weight |-> None, action |-> "", note |-> ""]
    /\ universe = TickerOrder
    /\ run = 1
    /\ first_run = <<>>
    /\ metrics = NoMetrics
    /\ normalized = NotNormalized
    /\ scores = NotScored
    /\ frames = <<>>
    /\ batch = 0
    /\ fundamental = NoFundamental
    /\ daily_returns = NoReturns
    /\ equity = StartEquity
    /\ prices = NoFrame
    /\ plan = NoPlan
    /\ composite_scores = NoComposite
    /\ target_weights = NoWeights

NextMetrics ==
    \/ EnhancedMetrics
    \/ AdvancedMetrics
    \/ CalcMetrics
    \/ PerformanceStats

SpecMetrics == InitMetrics /\ [][NextMetrics]_vars

(***************************************************************************)
(* calculate_composite_score: the min-max normalisation of a signal,       *)
(*     (x - x.min()) / (x.max() - x.min() + 1e-10) * 100                    *)
(* A normalised value is kept exact as num / (range + epsilon), with       *)
(* epsilon = 1e-10 symbolic: for integers a, b and c >= 0, a >= b + c *    *)
(* epsilon is decided on the integers first and on epsilon only when they  *)
(* are equal.                                                              *)
(***************************************************************************)
\* largest number of tickers (columns of the window) of a signal
MaxSignalTickers == 3
\* raw values of a signal
SignalValues == {-5, 0, 5}
\* the signals normalised by this expression
NormalizedSignals == {"momentum", "quality", "sharpe", "mean_reversion"}

RECURSIVE SeqMin(_)
SeqMin(s) ==
    IF Len(s) = 1 THEN s[1]
    ELSE LET m == SeqMin(Tail(s)) IN IF m < s[1] THEN m ELSE s[1]

RECURSIVE SeqMax(_)
SeqMax(s) ==
    IF Len(s) = 1 THEN s[1]
    ELSE LET m == SeqMax(Tail(s)) IN IF m > s[1] THEN m ELSE s[1]

\* (signal - min) / (max - min + 1e-10) * 100, elementwise
MinMaxNormalize(signal) ==
    [i \in 1..Len(signal) |->
        [num |-> (signal[i] - SeqMin(signal)) * 100,
         range |-> SeqMax(signal) - SeqMin(signal), eps |-> 1]]

\* num / (range + eps * epsilon) >= c and <= c, for an integer c >= 0
NormAtLeast(r, c) == r.num > c * r.range \/ (r.num = c * r.range /\ c * r.eps = 0)
NormAtMost(r, c) == r.num <= c * r.range

NormalizeSignal ==
    /\ sim = "calculate_composite_score"
    /\ outcome = "init"
    /\ normalized' = [normalized EXCEPT !.norm = MinMaxNormalize(normalized.signal)]
    /\ outcome' = "normalized"
    /\ UNCHANGED <<sim, dynamic_sizing, top_n, date, portfolio, cash, equity_curve,
                   valid_prices, last_known, picks, trades, action, universe, run,
                   first_run, metrics, scores, frames, batch,
                   target_weights, composite_scores, plan, prices,
                   equity, daily_returns, fundamental>>

\* a signal over 1..MaxSignalTickers tickers
InitNormalize ==
    /\ sim = "calculate_composite_score"
    /\ \E name \in NormalizedSignals, n \in 1..MaxSignalTickers :
          \E signal \in [1..n -> SignalValues] :
             normalized = [name |-> name, signal |-> signal, norm |-> <<>>]
    /\ dynamic_sizing = FALSE
    /\ top_n = ADV_TOP
    /\ date = 0
    /\ portfolio = <<>>
    /\ cash = INITIAL_CASH
    /\ equity_curve = <<>>
    /\ valid_prices = [t \in Tickers |-> NoPrice]
    /\ last_known = [t \in Tickers |-> NoPrice]
    /\ picks = <<>>
    /\ trades = <<>>
    /\ outcome = "init"
    /\ action = [pnl_pct |-> None, weight |-> None, action |-> "", note |-> ""]
    /\ universe = TickerOrder
    /\ run = 1
    /\ first_run = <<>>
    /\ metrics = NoMetrics
    /\ scores = NotScored
    /\ frames = <<>>
    /\ batch = 0
    /\ fundamental = NoFundamental
    /\ daily_returns = NoReturns
    /\ equity = StartEquity
    /\ prices = NoFrame
    /\ plan = NoPlan
    /\ composite_scores = NoComposite
    /\ target_weights = NoWeights

NextNormalize == NormalizeSignal

SpecNormalize == InitNormalize /\ [][NextNormalize]_vars

(***************************************************************************)
(* compute_scores of optimize_strategy on the window of a rebalance date.  *)
(* A window is described by its number of rows and, for each ticker, by    *)
(* the row that holds no price (counted from the last row, 1 = the last    *)
(* row; 0 = a price on every row).  Only whether a value is defined (not   *)
(* NaN) is modelled.                                                       *)
(***************************************************************************)
RET1M_PERIODS == 21
RET3M_PERIODS == 63
RET6M_PERIODS == 126
VOL_WINDOW == 63

ScoreWindowLens == {125, 126, 127}
GapOffsets == {0, 1, 22, 64, 127}

\* the ticker has no price on row g from the end of a window of wlen rows
HasGap(g, wlen) == g # 0 /\ g <= wlen

\* window.pct_change(k, fill_method=None).iloc[-1]: the last row against the
\* row k before it, which is row k + 1 from the end
ReturnDefined(k, g, wlen) ==
    /\ wlen >= k + 1
    /\ ~(HasGap(g, wlen) /\ g \in {1, k + 1})

\* window.pct_change().rolling(63).std().iloc[-1]: the last 63 daily returns,
\* which take the last 64 rows
VolDefined(g, wlen) ==
    /\ wlen >= VOL_WINDOW + 1
    /\ ~(HasGap(g, wlen) /\ g <= VOL_WINDOW + 1)

\* the row of a ticker: which of its columns are defined
ScoreRow(t, g, wlen) ==
    [ticker |-> t,
     ret1m |-> ReturnDefined(RET1M_PERIODS, g, wlen),
     ret3m |-> ReturnDefined(RET3M_PERIODS, g, wlen),
     ret6m |-> ReturnDefined(RET6M_PERIODS, g, wlen),
     vol |-> VolDefined(g, wlen),
     score |-> /\ ReturnDefined(RET1M_PERIODS, g, wlen)
               /\ ReturnDefined(RET3M_PERIODS, g, wlen)
               /\ ReturnDefined(RET6M_PERIODS, g, wlen)]

RowComplete(r) == r.score /\ r.ret1m /\ r.ret3m /\ r.ret6m /\ r.vol

\* result.dropna(): the rows without a NaN, in column order
compute_scores(gap, wlen) ==
    SelectSeq([i \in 1..Len(TickerOrder) |->
                  ScoreRow(TickerOrder[i], gap[TickerOrder[i]], wlen)],
              RowComplete)

\* lines 120-128 of the loop: the window guard, then compute_scores
ComputeScores ==
    /\ sim = "compute_scores"
    /\ outcome = "init"
    /\ IF scores.wlen < MIN_WINDOW
       THEN /\ outcome' = "short_window"
            /\ UNCHANGED scores
       ELSE /\ outcome' = "scored"
            /\ scores' = [scores EXCEPT !.rows = compute_scores(scores.gap, scores.wlen)]
    /\ UNCHANGED <<sim, dynamic_sizing, top_n, date, portfolio, cash, equity_curve,
                   valid_prices, last_known, picks, trades, action, universe, run,
                   first_run, metrics, normalized, frames, batch,
                   target_weights, composite_scores, plan, prices,
                   equity, daily_returns, fundamental>>

InitScores ==
    /\ sim = "compute_scores"
    /\ \E wlen \in ScoreWindowLens, gap \in [Tickers -> GapOffsets] :
          scores = [wlen |-> wlen, gap |-> gap, rows |-> <<>>]
    /\ dynamic_sizing = FALSE
    /\ top_n = 2
    /\ date = 0
    /\ portfolio = <<>>
    /\ cash = INITIAL_CASH
    /\ equity_curve = <<>>
    /\ valid_prices = [t \in Tickers |-> NoPrice]
    /\ last_known = [t \in Tickers |-> NoPrice]
    /\ picks = <<>>
    /\ trades = <<>>
    /\ outcome = "init"
    /\ action = [pnl_pct |-> None, weight |-> None, action |-> "", note |-> ""]
    /\ universe = TickerOrder
    /\ run = 1
    /\ first_run = <<>>
    /\ metrics = NoMetrics
    /\ normalized = NotNormalized
    /\ frames = <<>>
    /\ batch = 0
    /\ fundamental = NoFundamental
    /\ daily_returns = NoReturns
    /\ equity = StartEquity
    /\ prices = NoFrame
    /\ plan = NoPlan
    /\ composite_scores = NoComposite
    /\ target_weights = NoWeights

NextScores == ComputeScores

SpecScores == InitScores /\ [][NextScores]_vars

(***************************************************************************)
(* The start of a run: strategy_backtest.main and optimize_strategy fetch  *)
(* the price history in batches and then start their backtest.             *)
(***************************************************************************)
\* number of batches of 40 tickers the universe is split into
MaxBatches == 2

FetchPrograms == {"strategy_main", "optimize_strategy"}

\* one iteration of "for batch in chunked(tickers, 40)": an empty download is
\* skipped, any other is appended to frames
FetchBatch ==
    /\ sim \in FetchPrograms
    /\ outcome = "init"
    /\ batch < MaxBatches
    /\ batch' = batch + 1
    /\ \E empty \in BOOLEAN :
          frames' = IF empty THEN frames ELSE Append(frames, [batch |-> batch + 1])
    /\ UNCHANGED <<sim, dynamic_sizing, top_n, date, portfolio, cash, equity_curve,
                   valid_prices, last_known, picks, trades, outcome, action, universe,
                   run, first_run, metrics, normalized, scores, target_weights,
                   composite_scores, plan, prices, equity,
                   daily_returns, fundamental>>

\* "if not frames": strategy_backtest raises RuntimeError, optimize_strategy
\* prints an error and returns pd.DataFrame()
FetchReturn ==
    /\ sim \in FetchPrograms
    /\ outcome = "init"
    /\ batch = MaxBatches
    /\ outcome' = IF frames = <<>> /\ sim = "strategy_main" THEN "raised" ELSE "fetched"
    /\ UNCHANGED <<sim, dynamic_sizing, top_n, date, portfolio, cash, equity_curve,
                   valid_prices, last_known, picks, trades, action, universe,
                   run, first_run, metrics, normalized, scores, frames, batch,
                   target_weights, composite_scores, plan, prices,
                   equity, daily_returns, fundamental>>

\* resample accepts every frame
ResampleRaises_Never(fr) == FALSE

\* prices.resample(rebal_freq) raises TypeError on a frame whose index is not
\* a DatetimeIndex; pd.DataFrame(), returned when no frame was collected, has
\* none, the concatenation of downloaded frames has one
ResampleRaises(fr) == fr = <<>>

\* the caller goes on to its backtest: run_backtest of strategy_backtest, or
\* the first run_backtest_enhanced of the grid, which starts with the resample
StartBacktest ==
    /\ sim \in FetchPrograms
    /\ outcome = "fetched"
    /\ outcome' = IF sim = "optimize_strategy" /\ ResampleRaises(frames)
                  THEN "raised" ELSE "backtest"
    /\ UNCHANGED <<sim, dynamic_sizing, top_n, date, portfolio, cash, equity_curve,
                   valid_prices, last_known, picks, trades, action, universe,
                   run, first_run, metrics, normalized, scores, frames, batch,
                   target_weights, composite_scores, plan, prices,
                   equity, daily_returns, fundamental>>

\* the first date of the first run_backtest_enhanced of the grid
FirstRebalance ==
    /\ sim = "optimize_strategy"
    /\ outcome = "backtest"
    /\ \E px \in [Tickers -> PriceLevels \cup {NoPrice}],
          wlen \in WindowLens,
          rows \in [Tickers -> FeatureRows] :
          EnhancedStep(px, wlen, rows)
    /\ UNCHANGED <<universe, run, first_run, metrics, normalized, scores, frames, batch,
                   target_weights, composite_scores, plan, prices,
                   equity, daily_returns, fundamental>>

\* the first date of run_backtest of strategy_backtest: its selection
FirstSelection ==
    /\ sim = "strategy_main"
    /\ outcome = "backtest"
    /\ date' = date + 1
    /\ \E wlen \in LookbackLens, rows \in [Tickers -> FeatureRows] :
          LET pks == IF wlen < LOOKBACK_DAYS THEN <<>>
                     ELSE StrategyPicks(rows, top_n, vol_cap)
          IN /\ picks' = pks
             /\ outcome' = IF wlen < LOOKBACK_DAYS THEN "short_window"
                           ELSE IF pks = <<>> THEN "no_candidates" ELSE "picked"
    /\ UNCHANGED <<sim, dynamic_sizing, top_n, portfolio, cash, equity_curve,
                   valid_prices, last_known, trades, action, universe,
                   run, first_run, metrics, normalized, scores, frames, batch,
                   target_weights, composite_scores, plan, prices,
                   equity, daily_returns, fundamental>>

InitFetch ==
    /\ sim \in FetchPrograms
    /\ dynamic_sizing = FALSE
    /\ top_n = 2
    /\ date = 0
    /\ portfolio = <<>>
    /\ cash = INITIAL_CASH
    /\ equity_curve = <<>>
    /\ valid_prices = [t \in Tickers |-> NoPrice]
    /\ last_known = [t \in Tickers |-> NoPrice]
    /\ picks = <<>>
    /\ trades = <<>>
    /\ outcome = "init"
    /\ action = [pnl_pct |-> None, weight |-> None, action |-> "", note |-> ""]
    /\ universe = TickerOrder
    /\ run = 1
    /\ first_run = <<>>
    /\ metrics = NoMetrics
    /\ normalized = NotNormalized
    /\ scores = NotScored
    /\ frames = <<>>
    /\ batch = 0
    /\ fundamental = NoFundamental
    /\ daily_returns = NoReturns
    /\ equity = StartEquity
    /\ prices = NoFrame
    /\ plan = NoPlan
    /\ composite_scores = NoComposite
    /\ target_weights = NoWeights

NextFetch ==
    \/ FetchBatch
    \/ FetchReturn
    \/ StartBacktest
    \/ FirstRebalance
    \/ FirstSelection

SpecFetch == InitFetch /\ [][NextFetch]_vars

(***************************************************************************)
(* run_backtest_enhanced with dynamic_sizing: compute_scores, the filter   *)
(* and the score-weighted target weights, as a function of the returns of  *)
(* the window.  Momentum weights and scores are kept in tenths.            *)
(***************************************************************************)
\* momentum_weights of the configurations with dynamic_sizing, times 10
DynamicMomentumWeights == {<<3, 4, 3>>, <<5, 3, 2>>}

\* ret1m, ret3m and ret6m in percent
ReturnValues == {-7, 1, 6}

ReturnRows == [ret1m : ReturnValues, ret3m : ReturnValues, ret6m : ReturnValues]

\* scores = w1m * ret1m + w3m * ret3m + w6m * ret6m, times 10
WeightedScore(mw, r) == mw[1] * r.ret1m + mw[2] * r.ret3m + mw[3] * r.ret6m

\* the frame of compute_scores in column order; vol is below the cap
RECURSIVE ScoreFrame(_, _, _)
ScoreFrame(i, mw, rets) ==
    IF i > Len(TickerOrder) THEN <<>>
    ELSE LET t == TickerOrder[i] IN
         <<[ticker |-> t, score |-> WeightedScore(mw, rets[t]),
            ret3m |-> rets[t].ret3m, ret6m |-> rets[t].ret6m,
            vol |-> vol_cap - 1]>> \o ScoreFrame(i + 1, mw, rets)

\* mask, sort_values('score', ascending=False), head(top_n)
SizingPicks(mw, rets, n) ==
    LET frame == ScoreFrame(1, mw, rets)
        masked == SelectSeq(frame, LAMBDA r : MomentumMask(r, vol_cap))
        filtered == SortDesc(masked, [i \in 1..Len(masked) |-> masked[i].score])
    IN HeadN(filtered, n)

\* target_weights = picks['score'] / picks['score'].sum(), each weight kept
\* as the fraction num / den; den = 0 is the division by a zero total
TargetWeights(pks) ==
    LET total_score == SumSeq([i \in 1..Len(pks) |-> pks[i].score])
    IN [i \in 1..Len(pks) |-> [num |-> pks[i].score, den |-> total_score]]

SizePicks ==
    /\ sim = "target_weights"
    /\ \E mw \in DynamicMomentumWeights, rets \in [Tickers -> ReturnRows] :
          LET pks == SizingPicks(mw, rets, top_n)
          IN /\ picks' = pks
             /\ target_weights' = TargetWeights(pks)
             /\ outcome' = IF pks = <<>> THEN "no_candidates" ELSE "sized"
    /\ UNCHANGED <<sim, dynamic_sizing, top_n, date, portfolio, cash, equity_curve,
                   valid_prices, last_known, trades, action, universe,
                   run, first_run, metrics, normalized, scores, frames, batch,
                   composite_scores, plan, prices, equity,
                   daily_returns, fundamental>>

InitSizing ==
    /\ sim = "target_weights"
    /\ dynamic_sizing = TRUE
    /\ top_n = 2
    /\ date = 0
    /\ portfolio = <<>>
    /\ cash = INITIAL_CASH
    /\ equity_curve = <<>>
    /\ valid_prices = [t \in Tickers |-> NoPrice]
    /\ last_known = [t \in Tickers |-> NoPrice]
    /\ picks = <<>>
    /\ trades = <<>>
    /\ outcome = "init"
    /\ action = [pnl_pct |-> None, weight |-> None, action |-> "", note |-> ""]
    /\ universe = TickerOrder
    /\ run = 1
    /\ first_run = <<>>
    /\ metrics = NoMetrics
    /\ normalized = NotNormalized
    /\ scores = NotScored
    /\ frames = <<>>
    /\ batch = 0
    /\ fundamental = NoFundamental
    /\ daily_returns = NoReturns
    /\ equity = StartEquity
    /\ prices = NoFrame
    /\ plan = NoPlan
    /\ composite_scores = NoComposite
    /\ target_weights = NoWeights

NextSizing == SizePicks

SpecSizing == InitSizing /\ [][NextSizing]_vars

(***************************************************************************)
(* AdvancedQuantStrategy.calculate_composite_score: the weighted sum of    *)
(* the signals.  Weights are kept in hundredths, annual volatility in      *)
(* percent, and a score as the fraction num / den of hundredths.           *)
(***************************************************************************)
\* self.weights, times 100
weights == [momentum |-> 35, quality |-> 25, risk |-> -15, rsi |-> 10,
            sharpe |-> 15, mean_reversion |-> 5]

\* annual_vol in percent
AnnualVols == {0, 20, 100, 300}

\* the normalised signals other than risk: momentum_norm, quality_norm,
\* rsi_norm, sharpe_norm, mean_rev_norm on 0..100 and the average
\* correlation in hundredths
SignalRows ==
    { [momentum |-> 100, quality |-> 50, rsi |-> 60, sharpe |-> 100,
       mean_rev |-> 0, avg_corr |-> 40],
      [momentum |-> 0, quality |-> 100, rsi |-> 30, sharpe |-> 0,
       mean_rev |-> 100, avg_corr |-> 0],
      [momentum |-> 50, quality |-> 0, rsi |-> 100, sharpe |-> 50,
       mean_rev |-> 50, avg_corr |-> -20] }

\* risk_penalty = -annual_vol / (1.0 + annual_vol) * 100
calculate_volatility_risk(vol) == Frac(-(vol * 100), 100 + vol)

\* corr_penalty * 10 with penalty = -0.1 * avg_corr, in hundredths
CorrelationTerm(r) == -r.avg_corr

\* the composite sum; risk_norm = risk enters with self.weights['risk']
calculate_composite_score(r, vol) ==
    LET risk_norm == calculate_volatility_risk(vol)
        others == weights.momentum * r.momentum + weights.quality * r.quality
                  + weights.rsi * r.rsi + weights.sharpe * r.sharpe
                  + weights.mean_reversion * r.mean_rev + CorrelationTerm(r)
    IN Frac(others * risk_norm.den + weights.risk * risk_norm.num, risk_norm.den)

CompositeScore ==
    /\ sim = "composite_score"
    /\ \E sig \in [Tickers -> SignalRows], vol \in [Tickers -> AnnualVols] :
          composite_scores' = [i \in 1..Len(TickerOrder) |->
                          LET t == TickerOrder[i] IN
                          [ticker |-> t, signals |-> sig[t], annual_vol |-> vol[t],
                           composite |-> calculate_composite_score(sig[t], vol[t])]]
    /\ outcome' = "scored"
    /\ UNCHANGED <<sim, dynamic_sizing, top_n, date, portfolio, cash, equity_curve,
                   valid_prices, last_known, picks, trades, action, universe,
                   run, first_run, metrics, normalized, scores, frames, batch,
                   target_weights, plan, prices, equity, daily_returns,
                   fundamental>>

InitComposite ==
    /\ sim = "composite_score"
    /\ dynamic_sizing = FALSE
    /\ top_n = ADV_TOP
    /\ date = 0
    /\ portfolio = <<>>
    /\ cash = INITIAL_CASH
    /\ equity_curve = <<>>
    /\ valid_prices = [t \in Tickers |-> NoPrice]
    /\ last_known = [t \in Tickers |-> NoPrice]
    /\ picks = <<>>
    /\ trades = <<>>
    /\ outcome = "init"
    /\ action = [pnl_pct |-> None, weight |-> None, action |-> "", note |-> ""]
    /\ universe = TickerOrder
    /\ run = 1
    /\ first_run = <<>>
    /\ metrics = NoMetrics
    /\ normalized = NotNormalized
    /\ scores = NotScored
    /\ frames = <<>>
    /\ batch = 0
    /\ fundamental = NoFundamental
    /\ daily_returns = NoReturns
    /\ equity = StartEquity
    /\ prices = NoFrame
    /\ plan = NoPlan
    /\ target_weights = NoWeights
    /\ composite_scores = NoComposite

NextComposite == CompositeScore

SpecComposite == InitComposite /\ [][NextComposite]_vars

(***************************************************************************)
(* portfolio_tool: build_positions followed by plan_rebalance.  Amounts    *)
(* are whole rupees; the holdings are chosen so that every weight and      *)
(* every P&L is a whole number of percent, which keeps the comparisons of  *)
(* the code exact.                                                         *)
(***************************************************************************)
HARD_CAP_WEIGHT == 18
\* candidates[:3]
BUY_SLOTS == 3

\* every holding was bought at this average price
AvgPrice == 100
\* quotes of the holdings: at the stop loss, flat, at the take-profit level
HoldingPrices == {90, 100, 140}
\* one percent of the portfolio in rupees, a multiple of every holding price
PercentValue == 6300
\* weights, in percent, of the first two holdings; the third holds the rest
HoldingWeights == {17, 18, 19, 24}

\* the quote of a candidate: 0 stands for a missing price
CandidateQuotes == {0, 70, 1100}
\* the short-lists momentum_screen can hand over
MomentumLists ==
    {<<>>, <<"H1">>, <<"N1">>, <<"N1", "H2", "N2">>, <<"N1", "N2", "N3", "N4">>}
CandidateTickers == {"N1", "N2", "N3", "N4"}

\* a holding with a quote, worth w percent of the priced holdings
PricedHolding(name, w, price) ==
    [name |-> name, ticker |-> name, quantity |-> (w * PercentValue) \div price,
     avg_price |-> AvgPrice, price |-> Some(price)]

\* a holding whose quote could not be fetched
UnpricedHolding(name) ==
    [name |-> name, ticker |-> name, quantity |-> 10, avg_price |-> AvgPrice,
     price |-> None]

\* first loop of build_positions: one holding's result before weights are set
PositionOf(h) ==
    LET cost == h.quantity * h.avg_price
        market_value == IF h.price.none THEN None ELSE Some(h.quantity * h.price.val)
        pnl_abs == IF market_value.none THEN None ELSE Some(market_value.val - cost)
        pnl_pct == IF ~pnl_abs.none /\ cost # 0
                   THEN Some(TruncDiv(pnl_abs.val * 100, cost)) ELSE None
    IN [holding |-> h, price |-> h.price, market_value |-> market_value,
        cost |-> cost, pnl_pct |-> pnl_pct, weight |-> None,
        action |-> "", note |-> ""]

RECURSIVE TotalMarket(_)
TotalMarket(rs) ==
    IF rs = <<>> THEN 0
    ELSE (IF Head(rs).market_value.none THEN 0 ELSE Head(rs).market_value.val)
         + TotalMarket(Tail(rs))

\* second loop of build_positions: weight in percent, then evaluate_action
build_positions(holdings) ==
    LET first == [i \in 1..Len(holdings) |-> PositionOf(holdings[i])]
        total_market == TotalMarket(first)
        Labelled(r) ==
            LET weight == IF ~r.market_value.none /\ total_market # 0
                          THEN Some((r.market_value.val * 100) \div total_market)
                          ELSE None
                ev == evaluate_action(r.pnl_pct, weight)
            IN [r EXCEPT !.weight = weight, !.action = ev[1], !.note = ev[2]]
    IN [results |-> [i \in 1..Len(first) |-> Labelled(first[i])],
        total_market |-> total_market]

\* the sell/trim loop of plan_rebalance; acc = [sell_cash, trims]
RECURSIVE PlanTrims(_, _, _, _)
PlanTrims(i, results, total_market, acc) ==
    IF i > Len(results) THEN acc
    ELSE LET r == results[i]
             trim_times_100 == r.market_value.val * 100 - HARD_CAP_WEIGHT * total_market
             shares_to_sell == TruncDiv(trim_times_100, 100 * r.price.val)
             actual_trim_value == shares_to_sell * r.price.val
             next ==
                IF r.market_value.none \/ r.weight.none \/ r.price.none THEN acc
                ELSE IF r.action = "Sell"
                THEN [sell_cash |-> acc.sell_cash + r.market_value.val,
                      trims |-> Append(acc.trims,
                          [name |-> r.holding.name, value |-> r.market_value.val,
                           shares |-> r.holding.quantity, price |-> r.price.val,
                           new_value |-> 0])]
                ELSE IF r.weight.val > HARD_CAP_WEIGHT
                THEN IF shares_to_sell > 0
                     THEN [sell_cash |-> acc.sell_cash + actual_trim_value,
                           trims |-> Append(acc.trims,
                               [name |-> r.holding.name, value |-> actual_trim_value,
                                shares |-> shares_to_sell, price |-> r.price.val,
                                new_value |-> r.market_value.val - actual_trim_value])]
                     ELSE acc
                ELSE acc
         IN PlanTrims(i + 1, results, total_market, next)

\* every buy sized on the whole of the cash raised
PerSlotShares_Whole(sell_cash, slots, price) == sell_cash \div price

\* per_slot = sell_cash / len(buy_list); shares = int(per_slot // price)
PerSlotShares(sell_cash, slots, price) == sell_cash \div (slots * price)

\* the buy loop over buy_list; acc = [total_to_spend, buys]
RECURSIVE PlanBuys(_, _, _, _, _)
PlanBuys(i, buy_list, quotes, sell_cash, acc) ==
    IF i > Len(buy_list) THEN acc
    ELSE LET price == quotes[buy_list[i]]
             shares == PerSlotShares(sell_cash, Len(buy_list), price)
             spend == shares * price
             next == IF price = 0 THEN acc
                     ELSE [total_to_spend |-> acc.total_to_spend + spend,
                           buys |-> Append(acc.buys,
                               [ticker |-> buy_list[i], shares |-> shares,
                                price |-> price, spend |-> spend])]
         IN PlanBuys(i + 1, buy_list, quotes, sell_cash, next)

plan_rebalance(results, total_market, momentum, quotes) ==
    LET sold == PlanTrims(1, results, total_market, [sell_cash |-> 0, trims |-> <<>>])
        existing == {results[i].holding.ticker : i \in 1..Len(results)}
        candidates == SelectSeq(momentum, LAMBDA t : t \notin existing)
        buy_list == HeadN(candidates, BUY_SLOTS)
        bought == PlanBuys(1, buy_list, quotes, sold.sell_cash,
                           [total_to_spend |-> 0, buys |-> <<>>])
        base == [results |-> results, total_market |-> total_market,
                 sell_cash |-> sold.sell_cash, trims |-> sold.trims,
                 buys |-> <<>>, total_to_spend |-> 0, returned |-> ""]
    IN IF sold.sell_cash <= 0 THEN [base EXCEPT !.returned = "no_cash"]
       ELSE IF candidates = <<>> THEN [base EXCEPT !.returned = "no_candidates"]
       ELSE [base EXCEPT !.buys = bought.buys,
                         !.total_to_spend = bought.total_to_spend,
                         !.returned = "summary"]

PlanUnchanged ==
    UNCHANGED <<sim, dynamic_sizing, top_n, date, portfolio, cash, equity_curve,
                valid_prices, last_known, picks, trades, action, universe,
                run, first_run, metrics, normalized, scores, frames, batch,
                target_weights, composite_scores, prices, equity,
                   daily_returns, fundamental>>

\* main: holdings = load_holdings(...); build_positions(holdings)
BuildPositions ==
    /\ sim = "portfolio_tool"
    /\ outcome = "init"
    /\ \E w1 \in HoldingWeights, w2 \in HoldingWeights,
          px \in [1..3 -> HoldingPrices], unpriced \in BOOLEAN :
          LET holdings == <<PricedHolding("H1", w1, px[1]),
                            PricedHolding("H2", w2, px[2]),
                            PricedHolding("H3", 100 - w1 - w2, px[3])>>
                          \o (IF unpriced THEN <<UnpricedHolding("H4")>> ELSE <<>>)
              built == build_positions(holdings)
          IN plan' = [NoPlan EXCEPT !.results = built.results,
                                    !.total_market = built.total_market]
    /\ outcome' = "built"
    /\ PlanUnchanged

\* main: momentum = momentum_screen(...); plan_rebalance(results, total_market, momentum)
PlanRebalance ==
    /\ sim = "portfolio_tool"
    /\ outcome = "built"
    /\ \E momentum \in MomentumLists, quotes \in [CandidateTickers -> CandidateQuotes] :
          plan' = plan_rebalance(plan.results, plan.total_market, momentum, quotes)
    /\ outcome' = "planned"
    /\ PlanUnchanged

InitPlan ==
    /\ sim = "portfolio_tool"
    /\ dynamic_sizing = FALSE
    /\ top_n = ADV_TOP
    /\ date = 0
    /\ portfolio = <<>>
    /\ cash = INITIAL_CASH
    /\ equity_curve = <<>>
    /\ valid_prices = [t \in Tickers |-> NoPrice]
    /\ last_known = [t \in Tickers |-> NoPrice]
    /\ picks = <<>>
    /\ trades = <<>>
    /\ outcome = "init"
    /\ action = [pnl_pct |-> None, weight |-> None, action |-> "", note |-> ""]
    /\ universe = TickerOrder
    /\ run = 1
    /\ first_run = <<>>
    /\ metrics = NoMetrics
    /\ normalized = NotNormalized
    /\ scores = NotScored
    /\ frames = <<>>
    /\ batch = 0
    /\ fundamental = NoFundamental
    /\ daily_returns = NoReturns
    /\ equity = StartEquity
    /\ prices = NoFrame
    /\ target_weights = NoWeights
    /\ composite_scores = NoComposite
    /\ plan = NoPlan

NextPlan == BuildPositions \/ PlanRebalance

SpecPlan == InitPlan /\ [][NextPlan]_vars

(***************************************************************************)
(* strategy_backtest.run_backtest on a frame of daily closes.  Days are    *)
(* calendar days counted from a Saturday, so that every multiple of 7 is a *)
(* Friday, the label of a 'W-FRI' bin.  The frame has one row per trading  *)
(* day: a weekday that is not a holiday.                                   *)
(***************************************************************************)
\* rebalance dates after the first one that has a full lookback window
TradedWeeks == 3
WeekDays == 7
TradingDaysPerWeek == 5

LastDay == ((LOOKBACK_DAYS \div TradingDaysPerWeek) + TradedWeeks) * WeekDays

\* dates = prices.resample(freq).last().index: every Friday up to the last
\* row, numbered from 0 as in the code
NumDates == LastDay \div WeekDays
DateLabel(i) == (i + 1) * WeekDays

IsWeekday(d) == d % WeekDays \in {0, 3, 4, 5, 6}

\* the Fridays that may be exchange holidays
HolidayChoices == SUBSET {LastDay - 2 * WeekDays, LastDay - WeekDays}

\* a close starts at BasePrice and steps up by one on each of the ticker's
\* jump days, so it stays within BasePrice..TopPrice
BasePrice == 10
TopPrice == 12
\* a common multiple of the closes, the unit in which returns are exact
PriceLcm == 660
\* the jump days a ticker can have
JumpDays == {{}, {LastDay - 111}, {LastDay - 18}, {LastDay - 11},
             {LastDay - 18, LastDay - 4}}

CloseOn(jumps, d) == BasePrice + Cardinality({j \in jumps : j <= d})

\* the frame: its index and one column of closes per ticker
PriceFrame(holidays, jumps) ==
    LET index == SelectSeq([d \in 1..LastDay |-> d],
                           LAMBDA d : IsWeekday(d) /\ d \notin holidays)
    IN [index |-> index,
        close |-> [t \in Tickers |-> [k \in 1..Len(index) |-> CloseOn(jumps[t], index[k])]]]

\* number of rows dated on or before day d (prices.loc[:d])
RowsUpTo(frame, d) == Len(SelectSeq(frame.index, LAMBDA x : x <= d))

\* pct_change of a column at row k, in units of 1 / PriceLcm
PctChange(col, k, periods) ==
    (col[k] - col[k - periods]) * (PriceLcm \div col[k - periods])

RECURSIVE SumReturns(_, _, _)
SumReturns(col, from, to) ==
    IF from > to THEN 0
    ELSE PctChange(col, from, 1) + SumReturns(col, from + 1, to)

RECURSIVE SumSquaredReturns(_, _, _)
SumSquaredReturns(col, from, to) ==
    IF from > to THEN 0
    ELSE PctChange(col, from, 1) * PctChange(col, from, 1)
         + SumSquaredReturns(col, from + 1, to)

\* vol% < cap with vol% = std(last 63 daily returns) * 252**0.5 * 100 and the
\* sample variance (n * S2 - S1^2) / (n * (n - 1)): as 252 = 4 * 63 this is
\* (n * S2 - S1^2) * 200^2 < (cap * PriceLcm)^2 * (n - 1), both sides over 400
VolBelowCap(col, hi, cap) ==
    LET n == VOL_WINDOW
        S1 == SumReturns(col, hi - n + 1, hi)
        S2 == SumSquaredReturns(col, hi - n + 1, hi)
        scaled == (cap * PriceLcm) \div 20
    IN (n * S2 - S1 * S1) * 100 < scaled * scaled * (n - 1)

\* compute_scores on the window of rows lo..hi: a ticker has a row when all of
\* its columns are defined; returns are in percent times PriceLcm, the score
\* is ten times 0.3 * ret1m + 0.4 * ret3m + 0.3 * ret6m
RECURSIVE WindowScores(_, _, _, _)
WindowScores(i, frame, lo, hi) ==
    IF i > Len(TickerOrder) THEN <<>>
    ELSE LET t == TickerOrder[i]
             col == frame.close[t]
             ret1m == PctChange(col, hi, RET1M_PERIODS) * 100
             ret3m == PctChange(col, hi, RET3M_PERIODS) * 100
             ret6m == PctChange(col, hi, RET6M_PERIODS) * 100
         IN (IF hi - RET6M_PERIODS >= lo
             THEN <<[ticker |-> t, ret1m |-> ret1m, ret3m |-> ret3m, ret6m |-> ret6m,
                     score |-> 3 * ret1m + 4 * ret3m + 3 * ret6m,
                     calm |-> VolBelowCap(col, hi, vol_cap)]>>
             ELSE <<>>) \o WindowScores(i + 1, frame, lo, hi)

\* the window read for the date `end` extended to the next rebalance date
WindowEnd_NextDate(end) == end + WeekDays

\* window = prices.loc[:end]
WindowEnd(end) == end

\* the picks of the date `end`: tail(lookback_days) of the rows up to the
\* end of the window, the filter, the sort and head(top_n)
BacktestPicks(frame, end, n) ==
    LET hi == RowsUpTo(frame, WindowEnd(end))
        lo == IF hi > LOOKBACK_DAYS THEN hi - LOOKBACK_DAYS + 1 ELSE 1
        scored == WindowScores(1, frame, lo, hi)
        filtered == SelectSeq(scored,
                        LAMBDA r : r.calm /\ r.ret3m > 0 /\ r.ret6m > 0)
    IN HeadN(SortDesc(filtered, [k \in 1..Len(filtered) |-> filtered[k].score]), n)

\* window_start = date - pd.DateOffset(months=6), as 26 weeks of days
SIX_MONTHS == 182

\* df_rebal.loc[date] of run_backtest_enhanced: resample(rebal_freq).last(),
\* the last close of the week that ends on the date
WeekClose(frame, d) ==
    LET k == RowsUpTo(frame, d)
    IN [t \in Tickers |->
          IF k > 0 /\ frame.index[k] > d - WeekDays THEN frame.close[t][k] ELSE NoPrice]

\* len(window) for window = prices.loc[window_start:date]
EnhancedWindowLen(frame, d) ==
    RowsUpTo(frame, WindowEnd(d)) - RowsUpTo(frame, d - SIX_MONTHS - 1)

\* the picks of run_backtest_enhanced for the date d, with the momentum
\* weights (0.3, 0.4, 0.3) of the baseline configuration
EnhancedWindowPicks(frame, d, n) ==
    LET hi == RowsUpTo(frame, WindowEnd(d))
        lo == RowsUpTo(frame, d - SIX_MONTHS - 1) + 1
        scored == WindowScores(1, frame, lo, hi)
        filtered == SelectSeq(scored,
                        LAMBDA r : r.calm /\ r.ret3m > 0 /\ r.ret6m > 0)
    IN HeadN(SortDesc(filtered, [k \in 1..Len(filtered) |-> filtered[k].score]), n)

RECURSIVE Gcd(_, _)
Gcd(a, b) == IF b = 0 THEN a ELSE Gcd(b, a % b)

\* a fraction in lowest terms with a positive denominator
Reduced(n, d) == LET g == Gcd(Abs(n), d) IN Frac(n \div g, d \div g)

\* port_ret of row k: the mean over the picks of the row's pct_change
PortRet(frame, pks, k) ==
    Reduced(SumSeq([j \in 1..Len(pks) |-> PctChange(frame.close[pks[j].ticker], k, 1)]),
            Len(pks) * PriceLcm)

\* the loop over port_ret.items(): rows from..to; st = [equity, curve, daily]
RECURSIVE ApplyReturns(_, _, _, _, _)
ApplyReturns(frame, pks, from, to, st) ==
    IF from > to THEN st
    ELSE LET r == PortRet(frame, pks, from)
             grown == Reduced(st.equity.num * (r.den + r.num), st.equity.den * r.den)
         IN ApplyReturns(frame, pks, from + 1, to,
               [equity |-> grown,
                curve |-> Append(st.curve, [date |-> frame.index[from], value |-> grown]),
                daily |-> Append(st.daily, r)])

BacktestUnchanged ==
    UNCHANGED <<sim, dynamic_sizing, top_n, portfolio, cash, valid_prices,
                last_known, trades, action, universe, run, first_run, metrics,
                normalized, scores, frames, batch, target_weights,
                composite_scores, plan, prices, fundamental>>

\* one iteration of "for i in range(1, len(dates) - 1)"
BacktestStep ==
    /\ sim = "run_backtest"
    /\ date + 1 < NumDates - 1
    /\ LET i == date + 1
           end == DateLabel(i)
           rows == RowsUpTo(prices, end)
           pks == BacktestPicks(prices, end, top_n)
           \* period = prices.loc[end : dates[i + 1]], rows first..last
           first == RowsUpTo(prices, end - 1) + 1
           last == RowsUpTo(prices, DateLabel(i + 1))
           st == ApplyReturns(prices, pks, first + 1, last,
                              [equity |-> equity, curve |-> equity_curve,
                               daily |-> daily_returns])
       IN /\ date' = i
          /\ IF rows < LOOKBACK_DAYS
             THEN /\ outcome' = "short_window"
                  /\ picks' = <<>>
                  /\ UNCHANGED <<equity, equity_curve, daily_returns>>
             ELSE IF pks = <<>>
             THEN /\ outcome' = "no_candidates"
                  /\ picks' = pks
                  /\ UNCHANGED <<equity, equity_curve, daily_returns>>
             ELSE IF last <= first
             THEN /\ outcome' = "empty_period"
                  /\ picks' = pks
                  /\ UNCHANGED <<equity, equity_curve, daily_returns>>
             ELSE /\ outcome' = "picked"
                  /\ picks' = pks
                  /\ equity' = st.equity
                  /\ equity_curve' = st.curve
                  /\ daily_returns' = st.daily
    /\ BacktestUnchanged

\* "if not equity_curve: raise RuntimeError", else the curve is returned
BacktestReturn ==
    /\ sim = "run_backtest"
    /\ date + 1 = NumDates - 1
    /\ outcome \notin {"raised", "returned"}
    /\ outcome' = IF equity_curve = <<>> THEN "raised" ELSE "returned"
    /\ UNCHANGED <<date, picks, equity, equity_curve, daily_returns>>
    /\ BacktestUnchanged

\* one iteration of "for i, date in enumerate(df_rebal.index)" of
\* run_backtest_enhanced on the frame
BacktestEnhancedStep ==
    /\ sim = "run_backtest_enhanced"
    /\ date < NumDates
    /\ LET d == DateLabel(date)
           px == WeekClose(prices, d)
           pks == EnhancedWindowPicks(prices, d, top_n)
       IN IF NumValid(px) < MIN_VALID_PRICES THEN EnhancedSkip(px, "few_prices")
          ELSE IF EnhancedWindowLen(prices, d) < MIN_WINDOW
               THEN EnhancedSkip(px, "short_window")
          ELSE IF Len(pks) = 0 THEN EnhancedSkip(px, "no_candidates")
          ELSE EnhancedTrade(px, pks)
    /\ UNCHANGED <<universe, run, first_run, metrics, normalized, scores, frames,
                   batch, target_weights, composite_scores, plan, prices, equity,
                   daily_returns, fundamental>>

InitBacktest ==
    /\ sim \in {"run_backtest", "run_backtest_enhanced"}
    /\ dynamic_sizing = FALSE
    /\ top_n \in TopNChoices
    /\ date = 0
    /\ portfolio = <<>>
    /\ cash = INITIAL_CASH
    /\ equity_curve = <<>>
    /\ valid_prices = [t \in Tickers |-> NoPrice]
    /\ last_known = [t \in Tickers |-> NoPrice]
    /\ picks = <<>>
    /\ trades = <<>>
    /\ outcome = "init"
    /\ action = [pnl_pct |-> None, weight |-> None, action |-> "", note |-> ""]
    /\ universe = TickerOrder
    /\ run = 1
    /\ first_run = <<>>
    /\ metrics = NoMetrics
    /\ normalized = NotNormalized
    /\ scores = NotScored
    /\ frames = <<>>
    /\ batch = 0
    /\ fundamental = NoFundamental
    /\ target_weights = NoWeights
    /\ composite_scores = NoComposite
    /\ plan = NoPlan
    /\ \E holidays \in HolidayChoices, jumps \in [Tickers -> JumpDays] :
          prices = PriceFrame(holidays, jumps)
    /\ equity = StartEquity
    /\ daily_returns = NoReturns

NextBacktest == BacktestStep \/ BacktestReturn \/ BacktestEnhancedStep

SpecBacktest == InitBacktest /\ [][NextBacktest]_vars

(***************************************************************************)
(* data/fundamentals.compute_score.  Ratios are in percent, debt_to_equity *)
(* in hundredths; the sum is kept in units of 1/200, in which every term   *)
(* is an integer, and the result is in hundredths as round(score, 2).      *)
(***************************************************************************)
\* the weights dict of compute_score
FundamentalWeights == [roce |-> 25, sales_cagr |-> 20, profit_cagr |-> 15,
                       debt |-> 15, fcf |-> 15, promoter |-> 10]

ROCE_CAP == 40
CAGR_CAP == 25
PROMOTER_FLOOR == 45
PROMOTER_SPAN == 20
\* the unit of the sum: score * ScoreUnit is an integer
ScoreUnit == 200

StockFundamentals ==
    [roce : {-10, 0, 20, 40, 60},
     sales_cagr_5y : {-5, 0, 25, 30},
     profit_cagr_5y : {-5, 10, 25},
     debt_to_equity : {0, 50, 100, 150},
     fcf_3y_positive : BOOLEAN,
     promoter_holding : {40, 45, 55, 65, 75}]

Min(a, b) == IF a < b THEN a ELSE b
Max(a, b) == IF a > b THEN a ELSE b

\* round(x, 2) of x = k / ScoreUnit, in hundredths: to nearest, ties to even
RoundHundredths(k) ==
    LET half == ScoreUnit \div 100
        q == k \div half
        r == k % half
    IN IF 2 * r < half THEN q
       ELSE IF 2 * r > half THEN q + 1
       ELSE IF q % 2 = 0 THEN q ELSE q + 1

compute_score(f) ==
    LET roce == FundamentalWeights.roce * Min(f.roce, ROCE_CAP) * (ScoreUnit \div ROCE_CAP)
        sales == FundamentalWeights.sales_cagr * Min(f.sales_cagr_5y, CAGR_CAP)
                    * (ScoreUnit \div CAGR_CAP)
        profit == FundamentalWeights.profit_cagr
                     * Min(Max(f.profit_cagr_5y, 0), CAGR_CAP) * (ScoreUnit \div CAGR_CAP)
        debt_factor == Max(0, 100 - f.debt_to_equity)
        debt == FundamentalWeights.debt * debt_factor * (ScoreUnit \div 100)
        fcf == IF f.fcf_3y_positive THEN FundamentalWeights.fcf * ScoreUnit ELSE 0
        promoter_factor == Min(Max(f.promoter_holding - PROMOTER_FLOOR, 0), PROMOTER_SPAN)
        promoter == FundamentalWeights.promoter * promoter_factor
                       * (ScoreUnit \div PROMOTER_SPAN)
    IN RoundHundredths(roce + sales + profit + debt + fcf + promoter)

\* passes_hard_filters: score = compute_score(f)
ComputeScore ==
    /\ sim = "compute_score"
    /\ outcome = "init"
    /\ \E f \in StockFundamentals :
          fundamental' = [f |-> f, score |-> compute_score(f)]
    /\ outcome' = "scored"
    /\ UNCHANGED <<sim, dynamic_sizing, top_n, date, portfolio, cash, equity_curve,
                   valid_prices, last_known, picks, trades, action, universe,
                   run, first_run, metrics, normalized, scores, frames, batch,
                   target_weights, composite_scores, plan, prices, equity,
                   daily_returns>>

InitFundamentals ==
    /\ sim = "compute_score"
    /\ dynamic_sizing = FALSE
    /\ top_n = ADV_TOP
    /\ date = 0
    /\ portfolio = <<>>
    /\ cash = INITIAL_CASH
    /\ equity_curve = <<>>
    /\ valid_prices = [t \in Tickers |-> NoPrice]
    /\ last_known = [t \in Tickers |-> NoPrice]
    /\ picks = <<>>
    /\ trades = <<>>
    /\ outcome = "init"
    /\ action = [pnl_pct |-> None, weight |-> None, action |-> "", note |-> ""]
    /\ universe = TickerOrder
    /\ run = 1
    /\ first_run = <<>>
    /\ metrics = NoMetrics
    /\ normalized = NotNormalized
    /\ scores = NotScored
    /\ frames = <<>>
    /\ batch = 0
    /\ target_weights = NoWeights
    /\ composite_scores = NoComposite
    /\ plan = NoPlan
    /\ prices = NoFrame
    /\ equity = StartEquity
    /\ daily_returns = NoReturns
    /\ fundamental = NoFundamental

NextFundamentals == ComputeScore

SpecFundamentals == InitFundamentals /\ [][NextFundamentals]_vars

(***************************************************************************)
(* Properties.                                                             *)
(***************************************************************************)
Simulators == {"enhanced", "advanced", "comparison"}

\* the stop-loss threshold of the running simulator, in percent
StopThreshold == IF sim = "enhanced" THEN stop_loss ELSE ADV_STOP_LOSS

LastPoint == equity_curve[Len(equity_curve)]

\* the cash effect of a log entry
Signed(e) ==
    IF e.kind \in {"stop", "exit", "resize_sell", "resize_credit"}
    THEN e.shares * e.price
    ELSE IF e.kind \in {"buy", "resize_buy"} THEN -(e.shares * e.price)
    ELSE 0

\* net cash effect of the log entries from..to
RECURSIVE NetOf(_, _, _)
NetOf(log, from, to) ==
    IF from > to THEN 0 ELSE Signed(log[from]) + NetOf(log, from + 1, to)

SaleKinds == {"stop", "exit"}
BuyLoopKinds == {"buy", "declined", "resize_sell", "resize_buy", "resize_credit"}

\* C1: the stop-loss is inclusive.  On a date the simulator trades, every
\* position sold by the stop-loss rule has P&L <= threshold, every position
\* sold for non-selection or still held with a price has P&L > threshold (so
\* one at exactly the threshold was sold by the rule); evaluate_action returns
\* Sell at exactly STOP_LOSS_PCT and never reports a stop loss above it.
C1_StopLossInclusive ==
    /\ (sim \in {"enhanced", "advanced"} /\ outcome = "traded") =>
          /\ \A i \in 1..Len(trades) :
                /\ trades[i].kind = "stop" =>
                      (trades[i].price - trades[i].entry_price) * 100
                         <= StopThreshold * trades[i].entry_price
                /\ trades[i].kind = "exit" =>
                      (trades[i].price - trades[i].entry_price) * 100
                         > StopThreshold * trades[i].entry_price
          /\ \A i \in 1..Len(portfolio) :
                valid_prices[portfolio[i].ticker] # NoPrice =>
                   (valid_prices[portfolio[i].ticker] - portfolio[i].entry_price) * 100
                      > StopThreshold * portfolio[i].entry_price
    /\ (sim = "evaluate_action" /\ outcome = "evaluated"
        /\ ~action.pnl_pct.none /\ ~action.weight.none) =>
          /\ action.pnl_pct.val <= STOP_LOSS_PCT => action.action = "Sell"
          /\ action.pnl_pct.val > STOP_LOSS_PCT =>
                (action.action # "Sell" /\ action.note # "Stop loss hit")

\* a stop-loss sale at exactly the threshold
C1_Witness ==
    /\ sim \in {"enhanced", "advanced"}
    /\ outcome = "traded"
    /\ \E i \in 1..Len(trades) :
          /\ trades[i].kind = "stop"
          /\ (trades[i].price - trades[i].entry_price) * 100
                = StopThreshold * trades[i].entry_price

\* C2: the cash of a simulator is never negative.
C2_CashNonNegative == sim \in Simulators => cash >= 0

\* a buy was refused because it cost more than the cash at hand
C2_Witness ==
    /\ sim \in Simulators
    /\ \E i \in 1..Len(trades) : trades[i].kind = "declined"

\* C3: every equity point recorded for a date is the post-trade cash plus
\* shares times that date's price over all held positions (stated for the
\* dates on which every held position has a price).
C3_EquityIsCashPlusPositions ==
    (/\ sim \in {"enhanced", "advanced"}
     /\ equity_curve # <<>>
     /\ LastPoint.date = date
     /\ \A i \in 1..Len(portfolio) : valid_prices[portfolio[i].ticker] # NoPrice)
    => LastPoint.value = cash + PricedValue(portfolio, valid_prices)

\* C4: after the transition of any date no position with a price remains held
\* at or below the stop-loss threshold, also when no candidate survived the
\* filters (stated for the dates that had enough prices and history).
C4_NoPositionBelowStop ==
    (sim \in {"enhanced", "advanced"} /\ outcome \in {"traded", "no_candidates"}) =>
       \A i \in 1..Len(portfolio) :
          valid_prices[portfolio[i].ticker] # NoPrice =>
             (valid_prices[portfolio[i].ticker] - portfolio[i].entry_price) * 100
                > StopThreshold * portfolio[i].entry_price

\* C5: on a date, every stop-loss and non-selection sale precedes the buy
\* loop, and every buy decision is taken against the cash of the start of the
\* date plus the proceeds of those sales: a buy is executed only within it and
\* refused only when it exceeds it.
C5_SellsBeforeBuys ==
    [][(sim \in {"enhanced", "advanced"} /\ date' = date + 1 /\ outcome' = "traded") =>
          /\ \A i, j \in 1..Len(trades') :
                (i < j /\ trades'[i].kind \in BuyLoopKinds) =>
                   trades'[j].kind \notin SaleKinds
          /\ \A i \in 1..Len(trades') :
                LET available == cash + NetOf(trades', 1, i - 1)
                    cost == trades'[i].shares * trades'[i].price
                IN /\ trades'[i].kind = "buy" => cost <= available
                   /\ trades'[i].kind = "declined" => cost > available]_vars

\* a buy that costs more than the cash of the start of the date, after a sale
C5_Witness ==
    /\ sim \in {"enhanced", "advanced"}
    /\ outcome = "traded"
    /\ \E i, j \in 1..Len(trades) :
          /\ i < j
          /\ trades[i].kind \in SaleKinds
          /\ trades[j].kind = "buy"
          /\ trades[j].shares * trades[j].price
                > cash - NetOf(trades, 1, Len(trades))

\* C6: after a date's transition every held ticker is in the date's selection,
\* so at most top-N positions are held.
C6_HeldWithinPicks ==
    (sim \in Simulators /\ outcome = "traded") =>
       /\ Held(portfolio) \subseteq PickTickers(picks)
       /\ Len(portfolio) <= top_n

\* C7: a held ticker without a price on a date stays in the portfolio, is
\* valued at its last known price in the date's equity point, and is not
\* bought on that date.
C7_MissingPriceCarried ==
    [][(sim \in {"enhanced", "advanced"} /\ date' = date + 1 /\ outcome' = "traded") =>
          /\ \A i \in 1..Len(portfolio) :
                valid_prices'[portfolio[i].ticker] = NoPrice =>
                   portfolio[i] \in Range(portfolio')
          /\ equity_curve'[Len(equity_curve')].value =
                cash' + PricedValue(portfolio',
                           [t \in Tickers |-> IF valid_prices'[t] # NoPrice
                                              THEN valid_prices'[t] ELSE last_known'[t]])
          /\ \A i \in 1..Len(trades') :
                trades'[i].kind = "buy" => valid_prices'[trades'[i].ticker] # NoPrice]_vars

\* C8: a buy that would cost more than the available cash is clipped to the
\* largest affordable whole number of shares: a buy is refused outright only
\* when the cash does not pay for a single share.
C8_ClippedToAffordable ==
    (sim \in Simulators /\ outcome = "traded") =>
       \A i \in 1..Len(trades) :
          trades[i].kind = "declined" =>
             (cash - NetOf(trades, i, Len(trades))) \div trades[i].price = 0

\* C9: exactly one equity point is appended for every date processed, dated
\* with it, and earlier points are left as they were, also when no candidate
\* survived the filters (stated for the dates that had enough prices and
\* history).
C9_OnePointPerDate ==
    [][(/\ sim \in {"enhanced", "advanced"}
        /\ date' = date + 1
        /\ outcome' \in {"traded", "no_candidates"}) =>
          /\ Len(equity_curve') = Len(equity_curve) + 1
          /\ SubSeq(equity_curve', 1, Len(equity_curve)) = equity_curve
          /\ equity_curve'[Len(equity_curve')].date = date']_vars

\* C10: every ticker selected by run_backtest_enhanced, run_backtest or
\* momentum_screen has volatility strictly below the cap and strictly positive
\* 3-month and 6-month returns.
C10_PicksPassFilters ==
    sim \in {"enhanced", "strategy", "momentum_screen"} =>
       \A i \in 1..Len(picks) :
          /\ picks[i].vol < vol_cap
          /\ picks[i].ret3m > 0
          /\ picks[i].ret6m > 0

\* a selection that kept one of the two tickers and left the other out
C10_Witness ==
    /\ sim = "strategy"
    /\ outcome = "picked"
    /\ top_n = 2
    /\ Len(picks) = 1

\* position of a ticker in the alphabetical order of the names
TickerRank(t) == CHOOSE i \in 1..Len(TickerOrder) : TickerOrder[i] = t

\* C11: the rows returned by momentum_screen are in descending order of score,
\* and two rows of equal score (their momentum is that score) are in ascending
\* order of ticker name, whatever the order of the universe list.
C11_TiesByTickerName ==
    (sim = "momentum_screen" /\ outcome = "screened") =>
       \A i, j \in 1..Len(picks) :
          i < j =>
             \/ picks[i].score > picks[j].score
             \/ /\ picks[i].score = picks[j].score
                /\ TickerRank(picks[i].ticker) < TickerRank(picks[j].ticker)

C13_EqualWeightAfterRebalance ==
    (/\ sim = "enhanced"
     /\ ~dynamic_sizing
     /\ outcome = "traded"
     /\ \A i \in 1..Len(portfolio) : valid_prices[portfolio[i].ticker] # NoPrice
     /\ \A i \in 1..Len(trades) : trades[i].kind # "declined")
    => \A i \in 1..Len(picks) :
          LET t == picks[i].ticker
              n == Len(picks)
          IN /\ t \in Held(portfolio)
             /\ Abs(n * PosOf(portfolio, t).shares * valid_prices[t] - LastPoint.value)
                   <= n * valid_prices[t]

\* C14: on a date with enough prices and history on which fewer than top-N
\* tickers survive the filters (none included), the selection is all the
\* survivors and the date's transition is carried out: every priced holding
\* outside the selection is sold, every selected ticker with a price is held
\* afterwards unless the cash did not pay for it, and an equity point is
\* recorded for the date.
C14_UnderFullSelectionCompletes ==
    [][(/\ sim \in {"enhanced", "advanced"}
        /\ date' = date + 1
        /\ outcome' \in {"traded", "no_candidates"}
        /\ Len(picks') < top_n) =>
          /\ \A i \in 1..Len(portfolio) :
                (/\ valid_prices'[portfolio[i].ticker] # NoPrice
                 /\ portfolio[i].ticker \notin PickTickers(picks'))
                => portfolio[i].ticker \notin Held(portfolio')
          /\ \A i \in 1..Len(picks') :
                \/ valid_prices'[picks'[i].ticker] = NoPrice
                \/ cash' < valid_prices'[picks'[i].ticker]
                \/ picks'[i].ticker \in Held(portfolio')
                \/ \E j \in 1..Len(trades') :
                      /\ trades'[j].kind = "declined"
                      /\ trades'[j].ticker = picks'[i].ticker
          /\ Len(equity_curve') = Len(equity_curve) + 1
          /\ equity_curve'[Len(equity_curve')].date = date']_vars

\* C15: the maximum drawdown reported by any of the four performance
\* computations for a series of positive values is <= 0.
C15_DrawdownNonPositive ==
    (sim \in MetricsPrograms /\ metrics.kind = "metrics") =>
       /\ metrics.max_drawdown.den > 0
       /\ metrics.max_drawdown.num <= 0

\* a series that rises above its first value and then falls below its peak
C15_Witness ==
    /\ sim \in MetricsPrograms
    /\ metrics.kind = "metrics"
    /\ metrics.max_drawdown.num < 0
    /\ \E i \in 1..Len(equity_curve) : equity_curve[i].value > equity_curve[1].value

\* min over all points, the first included, of value / highest value so far - 1
ExpectedDrawdown(v) ==
    MinFrac([k \in 1..Len(v) |->
               RelativeToPeak(Frac(v[k], 1),
                              RunningMax([j \in 1..Len(v) |-> Frac(v[j], 1)], k))])

\* C16: the maximum drawdown reported by run_backtest_enhanced,
\* run_advanced_backtest or performance_stats for a series of two or more points is
\* the minimum over all its points, the first included, of value / highest
\* value at or before the point - 1.
C16_DrawdownCountsFirstPoint ==
    (sim \in {"enhanced_metrics", "advanced_metrics", "performance_stats"}
     /\ metrics.kind = "metrics" /\ Len(equity_curve) >= 2) =>
       FracEq(metrics.max_drawdown, ExpectedDrawdown(Values(equity_curve)))

\* C17: for a series of fewer than 2 points the computation returns, before
\* any division, a result that is not a metrics record.
C17_ShortSeriesIsNotMetrics ==
    (/\ sim \in {"enhanced_metrics", "advanced_metrics", "calc_metrics"}
     /\ outcome = "returned"
     /\ Len(equity_curve) < 2)
    => (metrics.kind # "metrics" /\ ~metrics.divided)

\* C18: the normalised values of a signal over two or more tickers lie in
\* [0, 100], and the normalised value of a signal over a single ticker is the
\* midpoint 50.
C18_NormalizedInRange ==
    (sim = "calculate_composite_score" /\ outcome = "normalized") =>
       /\ Len(normalized.signal) >= 2 =>
             \A i \in 1..Len(normalized.norm) :
                NormAtLeast(normalized.norm[i], 0) /\ NormAtMost(normalized.norm[i], 100)
       /\ Len(normalized.signal) = 1 =>
             (NormAtLeast(normalized.norm[1], 50) /\ NormAtMost(normalized.norm[1], 50))

\* C19: when the window of a date has at least the 126 rows the loop asks
\* for, every ticker with a price on each row of the window has a row in the
\* result of compute_scores (all of its columns defined).
C19_FullHistoryIsScored ==
    (/\ sim = "compute_scores"
     /\ outcome # "init"
     /\ scores.wlen >= MIN_WINDOW)
    => \A t \in Tickers :
          ~HasGap(scores.gap[t], scores.wlen) =>
             \E i \in 1..Len(scores.rows) : scores.rows[i].ticker = t

\* C20: once every batch has been downloaded and none held data, the run
\* takes no step but towards its failure: strategy_backtest raises as the
\* fetch returns, optimize_strategy raises as its first backtest starts on
\* the resample; no date is processed and no equity point is recorded.
C20_NoDataIsFatal ==
    [][(sim \in FetchPrograms /\ batch = MaxBatches /\ frames = <<>>) =>
          /\ date' = 0
          /\ equity_curve' = <<>>
          /\ outcome' \in {"fetched", "raised"}
          /\ (outcome = "fetched" \/ sim = "strategy_main") => outcome' = "raised"]_vars

\* optimize_strategy has ended with the error raised by its first backtest
C20_Witness ==
    /\ sim = "optimize_strategy"
    /\ batch = MaxBatches
    /\ frames = <<>>
    /\ outcome = "raised"

\* C21: at the prices of a rebalance date the trades of that date leave
\* cash + shares * price over the priced positions unchanged: what the
\* date's sells, buys and resizes move out of positions they move into cash
\* and back.
C21_TradesConserveValue ==
    [][(sim \in Simulators /\ date' = date + 1 /\ outcome' = "traded") =>
          cash' + PricedValue(portfolio', valid_prices')
             = cash + PricedValue(portfolio, valid_prices')]_vars

\* C22: a position held through a date (held before and after, not sold on
\* it) keeps its entry_price: a resize changes only its share count.
C22_EntryPriceKept ==
    [][(sim \in Simulators /\ date' = date + 1) =>
          \A t \in Held(portfolio) \cap Held(portfolio') :
             (\A i \in 1..Len(trades') :
                 ~(trades'[i].ticker = t /\ trades'[i].kind \in SaleKinds))
             => PosOf(portfolio', t).entry_price = PosOf(portfolio, t).entry_price]_vars

\* C23: under score-weighted sizing every pick's target weight is its score
\* over the total score of the picks, a number in [0, 1], and the weights
\* add up to 1.
C23_TargetWeightsAreShares ==
    (sim = "target_weights" /\ outcome = "sized") =>
       /\ \A i \in 1..Len(picks) :
             /\ target_weights[i].den # 0
             /\ target_weights[i].num * target_weights[i].den >= 0
             /\ Abs(target_weights[i].num) <= Abs(target_weights[i].den)
       /\ SumSeq([i \in 1..Len(picks) |-> target_weights[i].num])
             = target_weights[1].den

\* C24: of two tickers whose other signals are equal, the one with the
\* higher annualized volatility never has the higher composite score.
C24_VolatilityIsPenalty ==
    (sim = "composite_score" /\ outcome = "scored") =>
       \A i, j \in 1..Len(composite_scores) :
          (/\ composite_scores[i].signals = composite_scores[j].signals
           /\ composite_scores[i].annual_vol > composite_scores[j].annual_vol)
          => ~FracLess(composite_scores[j].composite, composite_scores[i].composite)

\* C25: evaluate_action is a decision table with a fixed precedence: Review
\* when P&L or weight is missing; otherwise Sell when pnl_pct <= STOP_LOSS_PCT
\* whatever the weight; otherwise Trim when the gain is at least
\* TAKE_PROFIT_PCT with the weight at or above MAX_WEIGHT - REBALANCE_BAND, or
\* when the weight is above MAX_WEIGHT + REBALANCE_BAND; otherwise Hold.
C25_DecisionTable ==
    (sim = "evaluate_action" /\ outcome = "evaluated") =>
       LET missing == action.pnl_pct.none \/ action.weight.none
           stopped == action.pnl_pct.val <= STOP_LOSS_PCT
           trimmed == \/ /\ action.pnl_pct.val >= TAKE_PROFIT_PCT
                         /\ action.weight.val >= MAX_WEIGHT - REBALANCE_BAND
                      \/ action.weight.val > MAX_WEIGHT + REBALANCE_BAND
       IN /\ action.action \in {"Review", "Sell", "Trim", "Hold"}
          /\ action.action = "Review" <=> missing
          /\ action.action = "Sell" <=> (~missing /\ stopped)
          /\ action.action = "Trim" <=> (~missing /\ ~stopped /\ trimmed)
          /\ action.action = "Hold" <=> (~missing /\ ~stopped /\ ~trimmed)

\* a position at the stop loss that is also above the overweight band
C25_Witness ==
    /\ sim = "evaluate_action"
    /\ outcome = "evaluated"
    /\ ~action.pnl_pct.none /\ ~action.weight.none
    /\ action.pnl_pct.val <= STOP_LOSS_PCT
    /\ action.weight.val > MAX_WEIGHT + REBALANCE_BAND
    /\ action.action = "Sell"

\* C26: the plan is cash-neutral: what the planned buys spend never exceeds
\* the cash raised by the planned sells and trims, so the remaining cash
\* reported is at least 0.
C26_PlanIsCashNeutral ==
    (sim = "portfolio_tool" /\ outcome = "planned") =>
       /\ plan.total_to_spend <= plan.sell_cash
       /\ plan.total_to_spend
             = SumSeq([i \in 1..Len(plan.buys) |-> plan.buys[i].shares * plan.buys[i].price])
       /\ plan.sell_cash = SumSeq([i \in 1..Len(plan.trims) |-> plan.trims[i].value])

\* a plan with a sale and at least two buys, one of them of a positive number
\* of shares
C26_Witness ==
    /\ sim = "portfolio_tool"
    /\ outcome = "planned"
    /\ plan.sell_cash > 0
    /\ Len(plan.buys) >= 2
    /\ plan.total_to_spend > 0
    /\ plan.total_to_spend < plan.sell_cash

\* C27: the label and the plan agree: a position labelled Trim by
\* build_positions gets a sell instruction of at least one share, and a
\* position the plan partially trims (new_value > 0) is labelled Trim.
C27_TrimLabelMatchesPlan ==
    (sim = "portfolio_tool" /\ outcome = "planned") =>
       \A i \in 1..Len(plan.results) :
          LET r == plan.results[i]
              instructions == {k \in 1..Len(plan.trims) :
                                  plan.trims[k].name = r.holding.name}
          IN /\ r.action = "Trim" =>
                   \E k \in instructions : plan.trims[k].shares >= 1
             /\ (\E k \in instructions : plan.trims[k].new_value > 0) =>
                   r.action = "Trim"

\* C28: in run_backtest, when two consecutive rebalance dates both have
\* picks, every trading day after the first and up to the second has exactly
\* one point in the equity curve, and the return applied for it is the
\* portfolio return of that day under the picks of the first date.
C28_EveryDayAppliedOnce ==
    [][(/\ sim = "run_backtest"
        /\ outcome = "picked" /\ outcome' = "picked"
        /\ date' = date + 1) =>
          \A k \in 1..Len(prices.index) :
             (prices.index[k] > DateLabel(date) /\ prices.index[k] <= DateLabel(date'))
             => LET points == {j \in 1..Len(equity_curve) :
                                  equity_curve[j].date = prices.index[k]}
                IN /\ Cardinality(points) = 1
                   /\ \A j \in points : daily_returns[j] = PortRet(prices, picks, k)]_vars

\* frames with the rows of the run's frame up to day d and other rows after
\* it: none at all, or the same days with each close at either price
SameUpTo(d) ==
    LET n == RowsUpTo(prices, d)
        cut == [index |-> SubSeq(prices.index, 1, n),
                close |-> [t \in Tickers |-> SubSeq(prices.close[t], 1, n)]]
        Later(c) == [index |-> prices.index,
                     close |-> [t \in Tickers |->
                                  [k \in 1..Len(prices.index) |->
                                      IF k <= n THEN prices.close[t][k] ELSE c[t]]]]
    IN {cut} \cup {Later(c) : c \in [Tickers -> {BasePrice, TopPrice}]}

\* C29: no look-ahead.  The picks made for a rebalance date, and the prices
\* its trades are made at, are those computed on any frame that has the
\* same rows up to that date, whatever its later rows are.
C29_NoLookAhead ==
    /\ (sim = "run_backtest" /\ outcome \in {"picked", "no_candidates", "empty_period"}) =>
          \A alt \in SameUpTo(DateLabel(date)) :
             picks = BacktestPicks(alt, DateLabel(date), top_n)
    /\ (sim = "run_backtest_enhanced" /\ outcome \in {"traded", "no_candidates"}) =>
          \A alt \in SameUpTo(DateLabel(date - 1)) :
             /\ valid_prices = WeekClose(alt, DateLabel(date - 1))
             /\ outcome = "traded" =>
                   picks = EnhancedWindowPicks(alt, DateLabel(date - 1), top_n)
             /\ outcome = "no_candidates" =>
                   EnhancedWindowPicks(alt, DateLabel(date - 1), top_n) = <<>>

\* picks were made on a date that a later price move follows
C29_Witness ==
    /\ sim \in {"run_backtest", "run_backtest_enhanced"}
    /\ outcome \in {"picked", "traded"}
    /\ date < NumDates - 1
    /\ \E t \in Tickers :
          prices.close[t][RowsUpTo(prices, DateLabel(date))]
             < prices.close[t][Len(prices.index)]

\* C30: compute_score returns a score between 0 and 100 for every
\* StockFundamentals (the score is in hundredths).
C30_ScoreInRange ==
    (sim = "compute_score" /\ outcome = "scored") =>
       (fundamental.score >= 0 /\ fundamental.score <= 100 * 100)

====
